---- MODULE Spec2Model ----
(***************************************************************************)
(* A model of evm-rs-study: the in-memory StateDB (src/src/state.rs), the  *)
(* frame (src/src/context.rs), stack and memory (src/src/stack.rs,         *)
(* src/src/mem.rs), the instruction handlers (src/src/instructions.rs)     *)
(* and the interpreter with its sub-call orchestration (src/src/vm.rs).    *)
(*                                                                         *)
(* Specifications:                                                         *)
(*   SpecDB, SpecAcct, SpecCode  sequences of StateDB trait calls on       *)
(*                               InMemoryStateDB::new()                    *)
(*   SpecStack, SpecMem, SpecAsm calls on a Stack, a Memory, the Assembler *)
(*   Spec    the interpreter running a root frame (Interpreter::run)       *)
(***************************************************************************)
EXTENDS Integers, Sequences, FiniteSets, TLC

\* ------------------------------------------------------------------------
\* Bounds of the model
\* ------------------------------------------------------------------------

\* Width of a Word in the model, in bits (U256 in the source).
WordBits == 8

\* Width of an Address in the model, in bits (160 in the source).
AddrBits == 5

\* Number of StateDB trait calls in one behaviour of SpecDB.
MaxOps == 5

WordMod == 2 ^ WordBits

WordMax == WordMod - 1

AddrMod == 2 ^ AddrBits

\* ------------------------------------------------------------------------
\* HashMap helpers
\* ------------------------------------------------------------------------

EmptyMap == [x \in {} |-> 0]

MapPut(m, k, v) == [x \in (DOMAIN m) \cup {k} |-> IF x = k THEN v ELSE m[x]]

\* HashMap iteration followed by insert of every entry: o overrides m.
MapFold(m, o) ==
    [x \in (DOMAIN m) \cup (DOMAIN o) |-> IF x \in DOMAIN o THEN o[x] ELSE m[x]]

\* ------------------------------------------------------------------------
\* StateObject (state.rs)
\* ------------------------------------------------------------------------

\* keccak256 of a byte string, abstracted to an injective code on the byte
\* strings the model uses; the hash of a string is never 0.
keccak256(code) == <<"keccak", code>>

ZeroHash == <<"zero">>

new_with_address(address) ==
    [balance |-> 0, nonce |-> 0, code |-> <<>>, code_hash |-> ZeroHash,
     address |-> address]

new_with_code(address, code) ==
    [balance |-> 0, nonce |-> 0, code |-> code, code_hash |-> keccak256(code),
     address |-> address]

\* ------------------------------------------------------------------------
\* InMemoryStateDB (state.rs)
\* ------------------------------------------------------------------------

InMemoryStateDB_new ==
    [objects |-> EmptyMap, storage |-> EmptyMap,
     dirty_storage |-> EmptyMap, dirty_objects |-> EmptyMap,
     transition_storage |-> EmptyMap, logs |-> <<>>]

\* get_object: Option<StateObject>; has_object is its is_some().
has_object(db, address) ==
    address \in DOMAIN db.dirty_objects \/ address \in DOMAIN db.objects

get_object(db, address) ==
    IF address \in DOMAIN db.dirty_objects
    THEN db.dirty_objects[address]
    ELSE db.objects[address]

\* get_object_mut: the map the returned &mut StateObject points into.
get_object_mut(db, address) ==
    IF address \in DOMAIN db.dirty_objects THEN "dirty"
    ELSE IF address \in DOMAIN db.objects THEN "objects"
    ELSE "none"

\* A write through the reference get_object_mut returned.
write_object_mut(db, address, account) ==
    IF get_object_mut(db, address) = "dirty"
    THEN [db EXCEPT !.dirty_objects = MapPut(@, address, account)]
    ELSE [db EXCEPT !.objects = MapPut(@, address, account)]

set_account(db, address, account) ==
    [db EXCEPT !.dirty_objects = MapPut(@, address, account)]

\* The database get_object_mut_or_create leaves behind (the account is
\* created in the dirty overlay when absent).
get_object_mut_or_create(db, address) ==
    IF has_object(db, address)
    THEN db
    ELSE set_account(db, address, new_with_address(address))

create_object(db, address) ==
    set_account(db, address, new_with_address(address))

\* set_code that renews the hash of an account it finds, and not its code.
set_code_hash_only(db, cotnract, code) ==
    IF get_object_mut(db, cotnract) # "none"
    THEN write_object_mut(db, cotnract,
            [get_object(db, cotnract) EXCEPT !.code_hash = keccak256(code)])
    ELSE set_account(db, cotnract, new_with_code(cotnract, code))

set_code(db, cotnract, code) ==
    IF get_object_mut(db, cotnract) # "none"
    THEN write_object_mut(db, cotnract,
            [get_object(db, cotnract) EXCEPT
                !.code_hash = keccak256(code), !.code = code])
    ELSE set_account(db, cotnract, new_with_code(cotnract, code))

get_balance(db, address) ==
    IF has_object(db, address) THEN get_object(db, address).balance ELSE 0

\* sub_balance without the balance < value test.
sub_balance_ok_unchecked(db, address, value) ==
    IF get_object_mut(db, address) # "none"
    THEN TRUE
    ELSE value = 0

\* sub_balance: whether it returns Ok ...
sub_balance_ok(db, address, value) ==
    IF get_object_mut(db, address) # "none"
    THEN ~(get_object(db, address).balance < value)
    ELSE value = 0

\* ... and the database it leaves (unchanged when it returns Err).
sub_balance(db, address, value) ==
    IF get_object_mut(db, address) # "none" /\ sub_balance_ok(db, address, value)
    THEN write_object_mut(db, address,
            [get_object(db, address) EXCEPT
                !.balance = (@ - value) % WordMod])
    ELSE db

add_balance(db, address, value) ==
    LET d == get_object_mut_or_create(db, address)
    IN  write_object_mut(d, address,
            [get_object(d, address) EXCEPT !.balance = (@ + value) % WordMod])

transfer_ok(db, from, to, value) == sub_balance_ok(db, from, value)

transfer(db, from, to, value) ==
    IF sub_balance_ok(db, from, value)
    THEN add_balance(sub_balance(db, from, value), to, value)
    ELSE db

get_nonce(db, address) ==
    IF has_object(db, address) THEN get_object(db, address).nonce ELSE 0

set_nonce(db, address, nonce) ==
    LET d == get_object_mut_or_create(db, address)
    IN  write_object_mut(d, address,
            [get_object(d, address) EXCEPT !.nonce = nonce])

get_code(db, address) ==
    IF has_object(db, address) THEN get_object(db, address).code ELSE <<>>

get_code_hash(db, address) ==
    IF has_object(db, address) THEN get_object(db, address).code_hash
    ELSE ZeroHash

exists(db, address) == has_object(db, address)

\* get_state looking into the committed map before the overlay.
get_state_committed_first(db, address, slot) ==
    IF <<address, slot>> \in DOMAIN db.storage
    THEN db.storage[<<address, slot>>]
    ELSE IF <<address, slot>> \in DOMAIN db.dirty_storage
    THEN db.dirty_storage[<<address, slot>>]
    ELSE 0

get_state(db, address, slot) ==
    IF <<address, slot>> \in DOMAIN db.dirty_storage
    THEN db.dirty_storage[<<address, slot>>]
    ELSE IF <<address, slot>> \in DOMAIN db.storage
    THEN db.storage[<<address, slot>>]
    ELSE 0

set_state(db, address, slot, value) ==
    [db EXCEPT !.dirty_storage = MapPut(@, <<address, slot>>, value)]

prepare(db) ==
    [db EXCEPT !.dirty_storage = EmptyMap,
               !.dirty_objects = EmptyMap,
               !.transition_storage = EmptyMap]

\* commit without the clear() calls after the two folds.
commit_keeps_overlay(db) ==
    [db EXCEPT !.storage = MapFold(@, db.dirty_storage),
               !.objects = MapFold(@, db.dirty_objects),
               !.transition_storage = EmptyMap]

commit(db) ==
    [db EXCEPT !.storage = MapFold(@, db.dirty_storage),
               !.dirty_storage = EmptyMap,
               !.objects = MapFold(@, db.dirty_objects),
               !.dirty_objects = EmptyMap,
               !.transition_storage = EmptyMap]

add_log(db, address, topics, data) ==
    [db EXCEPT !.logs = Append(@, <<address, topics, data>>)]

get_transition_state(db, address, slot) ==
    IF <<address, slot>> \in DOMAIN db.transition_storage
    THEN db.transition_storage[<<address, slot>>]
    ELSE 0

set_transition_state(db, address, slot, value) ==
    [db EXCEPT !.transition_storage = MapPut(@, <<address, slot>>, value)]

\* ------------------------------------------------------------------------
\* Conversions (u256.rs)
\* ------------------------------------------------------------------------

\* U256 wrapping_add, wrapping_mul, wrapping_sub.
wrapping_add(a, b) == (a + b) % WordMod

wrapping_mul(a, b) == (a * b) % WordMod

\* The subtraction with its operands exchanged.
wrapping_sub_reversed(a, b) == (b + WordMod - a) % WordMod

wrapping_sub(a, b) == (a + WordMod - b) % WordMod

\* U256::wrapping_div and wrapping_rem go through div_rem, which panics on
\* a zero divisor ("Division by zero").
div_rem_panics(rhs) == rhs = 0

wrapping_div(a, b) == a \div b

wrapping_rem(a, b) == a % b

\* The two's-complement reading of a word and the word of a signed value.
to_signed(x) == IF x >= WordMod \div 2 THEN x - WordMod ELSE x

of_signed(v) == (v + WordMod) % WordMod

Abs(v) == IF v < 0 THEN 0 - v ELSE v

\* i256_div: zero for a zero divisor, else the quotient rounded towards
\* zero; the most negative word divided by -1 is itself.
i256_div(a, b) ==
    IF b = 0 THEN 0
    ELSE LET q == Abs(to_signed(a)) \div Abs(to_signed(b))
         IN  IF (to_signed(a) < 0) # (to_signed(b) < 0)
             THEN of_signed(0 - q) ELSE of_signed(q)

\* i256_mod: zero for a zero divisor, else the remainder with the sign of
\* the dividend.
i256_mod(a, b) ==
    IF b = 0 THEN 0
    ELSE LET r == Abs(to_signed(a)) % Abs(to_signed(b))
         IN  IF to_signed(a) < 0 THEN of_signed(0 - r) ELSE of_signed(r)

\* The bytes of a word.
WordBytes == 32

\* x.as_limbs()[i / 8] >> (i % 8 * 8) & 0xff: limb 0 is the least
\* significant, so this is byte i counted from the least significant end.
RECURSIVE limb_byte(_, _)
limb_byte(x, i) == IF i = 0 THEN x % 256 ELSE limb_byte(x \div 256, i - 1)

\* byte: i is popped first, then x.
byte(i, x) == IF i >= WordBytes THEN 0 ELSE limb_byte(x, i)

\* a << b and a >> b on words: zero once b reaches the width of the word.
shl(a, b) == IF b >= WordBits THEN 0 ELSE (a * 2 ^ b) % WordMod

shr(a, b) == IF b >= WordBits THEN 0 ELSE a \div 2 ^ b

\* Width of usize in the model, in bits (64 in the source).
UsizeBits == 6

UsizeMax == 2 ^ UsizeBits - 1

\* The low limb when the upper limbs are zero, usize::MAX otherwise.
u256_to_usize(value) ==
    IF value \div (2 ^ UsizeBits) = 0 THEN value % (2 ^ UsizeBits) ELSE UsizeMax

\* The low AddrBits bits of the word.
u256_to_address(value) == value % AddrMod

\* ------------------------------------------------------------------------
\* Opcodes (opcode.rs) and the opcode table (opcode_table.rs)
\* ------------------------------------------------------------------------

\* The opcode constants of opcode.rs, by name.
Opcodes ==
    [STOP |-> 0,
     ADD |-> 1,
     MUL |-> 2,
     SUB |-> 3,
     DIV |-> 4,
     SDIV |-> 5,
     MOD |-> 6,
     SMOD |-> 7,
     BYTE |-> 26,
     SHL |-> 27,
     SHR |-> 28,
     CALLDATALOAD |-> 53,
     CALLDATACOPY |-> 55,
     CODECOPY |-> 57,
     EXTCODECOPY |-> 60,
     RETURNDATACOPY |-> 62,
     MSTORE8 |-> 83,
     SLOAD |-> 84,
     SSTORE |-> 85,
     JUMP |-> 86,
     JUMPI |-> 87,
     JUMPDEST |-> 91,
     TLOAD |-> 92,
     TSTORE |-> 93,
     PUSH1 |-> 96,
     PUSH2 |-> 97,
     PUSH32 |-> 127,
     LOG0 |-> 160,
     LOG4 |-> 164,
     CREATE |-> 240,
     CALL |-> 241,
     CALLCODE |-> 242,
     RETURN |-> 243,
     DELEGATECALL |-> 244,
     CREATE2 |-> 245,
     STATICCALL |-> 250,
     REVERT |-> 253,
     INVALID |-> 254]

STOP == Opcodes.STOP

ADD == Opcodes.ADD

MUL == Opcodes.MUL

SUB == Opcodes.SUB

DIV == Opcodes.DIV

SDIV == Opcodes.SDIV

MOD == Opcodes.MOD

SMOD == Opcodes.SMOD

BYTE == Opcodes.BYTE

SHL == Opcodes.SHL

SHR == Opcodes.SHR

CALLDATALOAD == Opcodes.CALLDATALOAD

CALLDATACOPY == Opcodes.CALLDATACOPY

CODECOPY == Opcodes.CODECOPY

EXTCODECOPY == Opcodes.EXTCODECOPY

RETURNDATACOPY == Opcodes.RETURNDATACOPY

MSTORE8 == Opcodes.MSTORE8

SLOAD == Opcodes.SLOAD

SSTORE == Opcodes.SSTORE

JUMP == Opcodes.JUMP

JUMPI == Opcodes.JUMPI

JUMPDEST == Opcodes.JUMPDEST

TLOAD == Opcodes.TLOAD

TSTORE == Opcodes.TSTORE

PUSH1 == Opcodes.PUSH1

PUSH2 == Opcodes.PUSH2

PUSH32 == Opcodes.PUSH32

LOG0 == Opcodes.LOG0

LOG4 == Opcodes.LOG4

CREATE == Opcodes.CREATE

CALL == Opcodes.CALL

CALLCODE == Opcodes.CALLCODE

RETURN == Opcodes.RETURN

DELEGATECALL == Opcodes.DELEGATECALL

CREATE2 == Opcodes.CREATE2

STATICCALL == Opcodes.STATICCALL

REVERT == Opcodes.REVERT

INVALID == Opcodes.INVALID

\* The bytes that have an entry in OPCODE_TABLE.
OPCODE_TABLE ==
    (0 .. 11) \cup (16 .. 29) \cup {32} \cup (48 .. 74) \cup (80 .. 164)
        \cup (240 .. 245) \cup {250, 253, 254, 255}

\* Every opcode taken to fill one byte.
get_opcode_size_one(opcode) == 1

\* 1 for ordinary opcodes, 1 + k for PUSHk.
get_opcode_size(opcode) ==
    IF opcode >= PUSH1 /\ opcode <= PUSH32 THEN opcode - PUSH1 + 2 ELSE 1

\* ------------------------------------------------------------------------
\* Stack (stack.rs): a Vec, the top is the last element
\* ------------------------------------------------------------------------

Stack_new == <<>>

push(stack, value) == Append(stack, value)

\* The i-th word pop() returns (1 is the top); the stack after n pops.
popped(stack, i) == stack[Len(stack) - i + 1]

pop_n(stack, n) == SubSeq(stack, 1, Len(stack) - n)

\* Vec::with_capacity(1024): the capacity the stack is created with.
STACK_CAPACITY == 1024

\* pop() unwraps the Option of Vec::pop: it panics on an empty stack.
pop_panics(stack) == stack = <<>>

\* dup indexes the Vec at len - n: out of range for n = 0 and for n > len.
dup_panics(stack, n) == n = 0 \/ n > Len(stack)

\* dup copying the top whatever n is.
dup_top(stack, n) == push(stack, stack[Len(stack)])

dup(stack, n) == push(stack, stack[Len(stack) - n + 1])

\* swap indexes the Vec at len - 1 and at len - n - 1.
swap_panics(stack, n) == Len(stack) = 0 \/ n >= Len(stack)

\* swap that never writes the saved top back.
swap_loses_top(stack, n) == [stack EXCEPT ![Len(stack)] = stack[Len(stack) - n]]

swap(stack, n) ==
    [stack EXCEPT ![Len(stack)] = stack[Len(stack) - n],
                  ![Len(stack) - n] = stack[Len(stack)]]

\* ------------------------------------------------------------------------
\* Memory (mem.rs): a Vec<u8>
\* ------------------------------------------------------------------------

Memory_new == <<>>

Zeros(n) == [i \in 1 .. n |-> 0]

\* ensure_capacity resizing with a non-zero filler.
ensure_capacity_dirty(memory, offset, size) ==
    IF offset + size > Len(memory)
    THEN memory \o [i \in 1 .. offset + size - Len(memory) |-> 1]
    ELSE memory

ensure_capacity(memory, offset, size) ==
    IF offset + size > Len(memory)
    THEN memory \o Zeros(offset + size - Len(memory))
    ELSE memory

write8(memory, offset, value) ==
    [ensure_capacity(memory, offset, 1) EXCEPT ![offset + 1] = value]

\* read returns a copy of [offset, offset+size) and grows the buffer, unless
\* size is 0.
read_mem(memory, offset, size) ==
    IF size = 0 THEN memory ELSE ensure_capacity(memory, offset, size)

read(memory, offset, size) ==
    IF size = 0 THEN <<>>
    ELSE SubSeq(ensure_capacity(memory, offset, size), offset + 1, offset + size)

\* write_with_size slices value[..size] before it zero-fills: the slice is
\* out of range, and the call panics, when size exceeds the value's length.
write_with_size_panics(offset, size, value) == size > Len(value)

write_with_size(memory, offset, size, value) ==
    LET m == ensure_capacity(memory, offset, size)
    IN  [i \in 1 .. Len(m) |->
            IF i > offset /\ i <= offset + size THEN value[i - offset] ELSE m[i]]

\* offset + size in usize: past usize::MAX the addition panics in a debug
\* build and wraps in a release build, where the slice taken next is out of
\* range; the call panics in both.
span_overflows(offset, size) == offset + size > UsizeMax

\* The 32 big-endian bytes of a word; the word 32 big-endian bytes spell.
RECURSIVE to_be_bytes(_, _)
to_be_bytes(value, n) ==
    IF n = 0 THEN <<>>
    ELSE Append(to_be_bytes(value \div 256, n - 1), value % 256)

to_be_bytes32(value) == to_be_bytes(value, 32)

RECURSIVE from_be_slice(_)
from_be_slice(bytes) ==
    IF bytes = <<>> THEN 0
    ELSE (256 * from_be_slice(SubSeq(bytes, 1, Len(bytes) - 1))
            + bytes[Len(bytes)]) % WordMod

\* The buffer with bytes written at [offset, offset + Len(bytes)).
splice(memory, offset, bytes) ==
    [i \in 1 .. Len(memory) |->
        IF i > offset /\ i <= offset + Len(bytes) THEN bytes[i - offset]
        ELSE memory[i]]

write32(memory, offset, value) ==
    splice(ensure_capacity(memory, offset, 32), offset, to_be_bytes32(value))

\* write does nothing for an empty value.
write(memory, offset, value) ==
    IF Len(value) > 0
    THEN splice(ensure_capacity(memory, offset, Len(value)), offset, value)
    ELSE memory

read32_mem(memory, offset) == ensure_capacity(memory, offset, 32)

read32(memory, offset) ==
    from_be_slice(SubSeq(ensure_capacity(memory, offset, 32),
                         offset + 1, offset + 32))

Max(a, b) == IF a >= b THEN a ELSE b

\* copy splits the buffer at dst_offset and then indexes the lower part,
\* which is dst_offset long, at [dst_offset, dst_offset + size), and the
\* upper part at [src_offset, src_offset + size): the first is out of range
\* unless size is 0, the second unless the upper part is long enough.
copy_panics(memory, dst_offset, src_offset, size) ==
    LET m == ensure_capacity(memory, Max(src_offset, dst_offset), size)
    IN  \/ span_overflows(Max(src_offset, dst_offset), size)
        \/ size > 0
        \/ src_offset + size > Len(m) - dst_offset

\* What a copy that returns leaves: nothing is copied, the buffer is grown.
copy(memory, dst_offset, src_offset, size) ==
    ensure_capacity(memory, Max(src_offset, dst_offset), size)

\* ------------------------------------------------------------------------
\* Assembler (asm.rs)
\* ------------------------------------------------------------------------

\* A line is the sequence of its whitespace-separated tokens (none for a
\* blank line). A mnemonic token is a string; an operand token is a record
\* [prefix, digits]: whether it starts with "0x", and its characters after
\* that, each the value of a hexadecimal digit or NotHex for any other
\* character.
NotHex == 16

\* Assembler::new inverts OPCODE_TABLE: mnemonic -> opcode byte.
opcode_table ==
    [name \in {"STOP", "ADD", "PUSH1", "PUSH2"} |->
        CASE name = "STOP" -> STOP
          [] name = "ADD" -> ADD
          [] name = "PUSH1" -> PUSH1
          [] name = "PUSH2" -> PUSH2]

\* U256::from_str_radix(s, 16) fails on a character that is no digit.
from_str_radix_fails(digits) == \E i \in 1 .. Len(digits) : digits[i] >= NotHex

RECURSIVE from_str_radix(_)
from_str_radix(digits) ==
    IF digits = <<>> THEN 0
    ELSE 16 * from_str_radix(SubSeq(digits, 1, Len(digits) - 1))
            + digits[Len(digits)]

\* to_be_bytes_trimmed_vec: the big-endian bytes without leading zeros.
RECURSIVE to_be_bytes_trimmed_vec(_)
to_be_bytes_trimmed_vec(value) ==
    IF value = 0 THEN <<>>
    ELSE Append(to_be_bytes_trimmed_vec(value \div 256), value % 256)

\* vec![0] for zero, the trimmed bytes otherwise.
operand_bytes_of(value) ==
    IF value = 0 THEN <<0>> ELSE to_be_bytes_trimmed_vec(value)

AsmOk(bytes) == [res |-> "ok", bytes |-> bytes]

AsmErr(line) == [res |-> "InvalidAsmToken", line |-> line]

AsmPanic == [res |-> "panic"]

\* The "0x" prefix is stripped when there; the operand is then parsed in
\* base 16 either way. &operand_bytes[0..operand_size] is out of range, and
\* panics, when the operand has fewer bytes than the PUSH takes.
asm_opcode(line) ==
    IF line = <<>> THEN AsmErr(line)
    ELSE IF line[1] \notin DOMAIN opcode_table THEN AsmErr(line)
    ELSE LET opcode_byte == opcode_table[line[1]]
         IN  IF opcode_byte >= PUSH1 /\ opcode_byte <= PUSH32
             THEN IF Len(line) < 2 THEN AsmErr(line)
                  ELSE IF from_str_radix_fails(line[2].digits) THEN AsmErr(line)
                  ELSE LET operand_bytes ==
                               operand_bytes_of(from_str_radix(line[2].digits))
                           operand_size == opcode_byte - PUSH1 + 1
                       IN  IF Len(operand_bytes) > operand_size
                           THEN AsmErr(line)
                           ELSE IF Len(operand_bytes) < operand_size
                           THEN AsmPanic
                           ELSE AsmOk(<<opcode_byte>>
                                        \o SubSeq(operand_bytes, 1, operand_size))
             ELSE AsmOk(<<opcode_byte>>)

\* asm: the lines in order, blank ones skipped; the first error is returned
\* and the bytes built so far are dropped.
RECURSIVE asm_from(_, _)
asm_from(lines, bytes) ==
    IF lines = <<>> THEN AsmOk(bytes)
    ELSE IF lines[1] = <<>> THEN asm_from(Tail(lines), bytes)
    ELSE LET r == asm_opcode(lines[1])
         IN  IF r.res = "ok" THEN asm_from(Tail(lines), bytes \o r.bytes)
             ELSE r

asm(lines) == asm_from(lines, <<>>)

\* ------------------------------------------------------------------------
\* Context (context.rs)
\* ------------------------------------------------------------------------

Address_ZERO == 0

Context_new ==
    [stack |-> Stack_new, memory |-> Memory_new, pc |-> 0,
     caller |-> Address_ZERO, origin |-> Address_ZERO,
     contract |-> Address_ZERO, code |-> <<>>, call_data |-> <<>>,
     return_data |-> <<>>, value |-> 0, depth |-> 0]

\* ------------------------------------------------------------------------
\* Child frames of the sub-call handlers (vm.rs)
\* ------------------------------------------------------------------------

\* Interpreter::run
run_ctx(db, origin, from, to, args, value) ==
    [Context_new EXCEPT !.contract = to, !.code = get_code(db, to),
                        !.call_data = args, !.value = value,
                        !.caller = from, !.origin = origin]

call_new_ctx(db, ctx, to, value, call_data) ==
    [Context_new EXCEPT !.contract = u256_to_address(to),
                        !.code = get_code(db, u256_to_address(to)),
                        !.call_data = call_data, !.value = value,
                        !.caller = ctx.origin, !.depth = ctx.depth + 1]

delegate_call_new_ctx(db, ctx, to, call_data) ==
    [Context_new EXCEPT !.contract = ctx.contract,
                        !.code = get_code(db, u256_to_address(to)),
                        !.call_data = call_data,
                        !.caller = ctx.caller, !.depth = ctx.depth + 1]

call_code_new_ctx(db, ctx, to, call_data) ==
    [Context_new EXCEPT !.contract = ctx.contract,
                        !.caller = u256_to_address(to),
                        !.code = get_code(db, u256_to_address(to)),
                        !.call_data = call_data, !.depth = ctx.depth + 1]

\* A static call that hands a value of 1 to its child.
static_call_new_ctx_valued(db, ctx, to, call_data) ==
    [Context_new EXCEPT !.contract = u256_to_address(to),
                        !.code = get_code(db, u256_to_address(to)),
                        !.call_data = call_data, !.value = 1,
                        !.caller = ctx.origin, !.depth = ctx.depth + 1]

static_call_new_ctx(db, ctx, to, call_data) ==
    [Context_new EXCEPT !.contract = u256_to_address(to),
                        !.code = get_code(db, u256_to_address(to)),
                        !.call_data = call_data,
                        !.caller = ctx.origin, !.depth = ctx.depth + 1]

\* Address::create(nonce) and Address::create2(salt, code hash): an address
\* that the sender and the nonce, or the sender, the salt and the init code,
\* determine. The hashes are modelled by a map into the upper half of the
\* address space.
Address_create(sender, nonce) ==
    AddrMod \div 2 + ((3 * sender + nonce) % (AddrMod \div 2))

RECURSIVE SumBytes(_)
SumBytes(bytes) ==
    IF bytes = <<>> THEN 0
    ELSE (bytes[1] + SumBytes(SubSeq(bytes, 2, Len(bytes)))) % AddrMod

Address_create2(sender, salt, code) ==
    AddrMod \div 2
        + ((5 * sender + salt + SumBytes(code) + Len(code) + 1) % (AddrMod \div 2))

\* init_contract: the frame that runs the init code.
init_contract_new_ctx(ctx, contract_address, code) ==
    [Context_new EXCEPT !.contract = contract_address, !.code = code,
                        !.caller = ctx.caller, !.depth = ctx.depth + 1]

\* Whether the handler commits when the child returned Ok.
commits_on_ok(op) == op # STATICCALL

\* The word the sub-call handlers push for the child's result.
call_result_word(res) == IF res = "Ok" THEN 1 ELSE 0

\* CALL with a value: whether the transfer out of the parent's caller fails.
call_transfer_fails(db, ctx, to, value) ==
    value # 0 /\ ~transfer_ok(db, ctx.caller, u256_to_address(to), value)

\* The failed transfer reported as a success, as the CALL stub of
\* instructions.rs does.
call_insufficient_pushes_one(ctx) == [ctx EXCEPT !.stack = push(@, 1)]

\* The parent frame CALL leaves when that transfer fails.
call_insufficient(ctx) == [ctx EXCEPT !.stack = push(@, 0)]

\* ------------------------------------------------------------------------
\* Handlers that read the call data, the code and the return data
\* (instructions.rs)
\* ------------------------------------------------------------------------

Min(a, b) == IF a <= b THEN a ELSE b

\* a - b on usize in a build without overflow checks: it wraps.
usize_sub(a, b) == (a + UsizeMax + 1 - b) % (UsizeMax + 1)

\* a - b on usize overflows: a panic in a build with overflow checks (the
\* debug profile), a wrap without them (the release profile).
usize_sub_overflows(a, b) == b > a

\* call_data_load: min(offset, len - 1), then min(32, len - start_offset).
call_data_load_start(call_data, offset) ==
    Min(offset, usize_sub(Len(call_data), 1))

call_data_load_size(call_data, offset) ==
    Min(WordBytes,
        usize_sub(Len(call_data), call_data_load_start(call_data, offset)))

\* It panics on len - 1 for empty call data when overflows are checked, and
\* on call_data[start_offset + i] when that index is out of range.
call_data_load_panics(call_data, offset, overflow_checks) ==
    \/ overflow_checks /\ usize_sub_overflows(Len(call_data), 1)
    \/ /\ call_data_load_size(call_data, offset) > 0
       /\ call_data_load_start(call_data, offset)
            + call_data_load_size(call_data, offset) > Len(call_data)

\* The 32 bytes loaded.
call_data_load(call_data, offset) ==
    [i \in 1 .. WordBytes |->
        IF i <= call_data_load_size(call_data, offset)
        THEN call_data[call_data_load_start(call_data, offset) + i]
        ELSE 0]

\* Memory::fill: grow, then set [offset, offset + size) to value.
fill(memory, offset, value, size) ==
    splice(ensure_capacity(memory, offset, size), offset,
           [i \in 1 .. size |-> value])

\* call_data_copy, code_copy and return_data_copy take
\* min(size, len - offset); ext_code_copy takes min(size, len).
copy_size_of(op, source, offset, size) ==
    IF op = EXTCODECOPY THEN Min(size, Len(source))
    ELSE Min(size, usize_sub(Len(source), offset))

\* The handlers panic on len - offset when overflows are checked, on the
\* slice source[start_offset .. start_offset + copy_size] when it ends past
\* the source, and in Memory when the span to grow to overflows usize.
data_copy_panics(op, source, dst_offset, offset, size, overflow_checks) ==
    \/ /\ op # EXTCODECOPY
       /\ overflow_checks
       /\ usize_sub_overflows(Len(source), offset)
    \/ /\ offset >= Len(source)
       /\ span_overflows(dst_offset, size)
    \/ /\ offset < Len(source)
       /\ \/ offset + copy_size_of(op, source, offset, size) > Len(source)
          \/ /\ copy_size_of(op, source, offset, size) > 0
             /\ span_overflows(dst_offset, copy_size_of(op, source, offset, size))

\* The memory they leave: zeros over [dst, dst + size) when start_offset is
\* at or past the end of the source, else the copy_size bytes written.
data_copy(op, memory, source, dst_offset, offset, size) ==
    IF offset >= Len(source)
    THEN fill(memory, dst_offset, 0, size)
    ELSE write(memory, dst_offset,
               SubSeq(source, offset + 1,
                      offset + copy_size_of(op, source, offset, size)))

\* ------------------------------------------------------------------------
\* State
\* ------------------------------------------------------------------------

VARIABLES
    state,      \* the StateDB (Interpreter::state / an InMemoryStateDB)
    \* -- SpecDB: history of the trait calls made so far
    nops,       \* number of trait calls made
    lastOp,     \* the last trait call, its arguments and whether it returned Ok
    pend,       \* (a,k) -> value of the last set_state since the last prepare/commit
    comm,       \* (a,k) -> value last committed for (a,k), 0 if none
    tpend,      \* (a,k) -> value of the last set_transition_state since the last prepare
    dropped,    \* the keys whose pending write the last prepare() discarded
    snapObjs,   \* the committed objects map as the last prepare() left it
    cleanSince, \* a prepare() was called, and since then only sub_balance,
                \* add_balance, set_nonce and set_code
    \* -- Spec: the interpreter
    frames,     \* the live Contexts, root first; the last one is running
    conts,      \* the suspended sub-call handlers, one per frame below the top
    status,     \* "run" | "ret" (a frame just ended) | "done" | "panic"
    result,     \* what the run_with_ctx that ended last returned
    ev,         \* the handler executed last, with what it saw before it ran
    dbcalls,    \* how many times prepare() and commit() were called
    sstores,    \* the SSTOREs made so far, by the frame that made them
    \* -- SpecStack, SpecMem, SpecAsm: one object and the calls made on it
    stk,        \* a Stack
    shist,      \* the Stack calls made so far, each with the stack before it
    mem,        \* a Memory
    mhist,      \* the Memory calls made so far, each with the buffer before it
    asmIn,      \* the lines given to Assembler::asm
    asmOut      \* what asm returned for them

dbhist == <<nops, lastOp, pend, comm, tpend, dropped, snapObjs, cleanSince>>

vmvars == <<frames, conts, status, result, ev, dbcalls, sstores>>

libvars == <<stk, shist, mem, mhist, asmIn, asmOut>>

vars == <<state, dbhist, vmvars, libvars>>

\* ------------------------------------------------------------------------
\* SpecDB: sequences of StateDB trait calls
\* ------------------------------------------------------------------------

Addrs == {1, 2}

Slots == {0}

StoreVals == {1, 2}

Amounts == {0, 1, WordMax}

Nonces == {1}

Codes == {<<0>>}

Keys == Addrs \X Slots

NoVal == WordMod

NoOp == [op |-> "none", a |-> 0, b |-> 0, v |-> 0, ok |-> TRUE]

NoEv == [kind |-> "none"]

\* The record of the SSTOREs: `of` lists, for each live frame, the writes
\* of the frame and of the sub-frames of it that ended normally; `failed`
\* holds the writes of the frames that ended in error.
NoStores == [of |-> <<{}>>, failed |-> {}]

\* The running frame executed SSTORE.
stored(w, contract, key, value) ==
    [w EXCEPT !.of[Len(w.of)] =
        @ \cup {[address |-> contract, slot |-> key, value |-> value]}]

\* A child frame was entered.
entered(w) == [w EXCEPT !.of = Append(@, {})]

\* The running child frame ended with res.
returned(w, res) ==
    LET n == Len(w.of)
    IN  IF res = "Ok"
        THEN [w EXCEPT !.of = Append(SubSeq(@, 1, n - 2), w.of[n - 1] \cup w.of[n])]
        ELSE [of |-> SubSeq(w.of, 1, n - 1), failed |-> w.failed \cup w.of[n]]

NoAsm == [res |-> "none"]

\* No Stack, Memory or Assembler call is made in this specification.
LibIdle ==
    /\ stk = <<>>
    /\ shist = <<>>
    /\ mem = <<>>
    /\ mhist = <<>>
    /\ asmIn = <<>>
    /\ asmOut = NoAsm

VMIdle ==
    /\ frames = <<>>
    /\ conts = <<>>
    /\ status = "idle"
    /\ result = "none"
    /\ ev = NoEv
    /\ dbcalls = [prepare |-> 0, commit |-> 0]
    /\ sstores = NoStores

\* StateObject::new
StateObject_new ==
    [balance |-> 0, nonce |-> 0, code |-> <<>>, code_hash |-> ZeroHash,
     address |-> Address_ZERO]

\* create_contract: get_object(&caller).unwrap() panics when the caller has
\* no account.
create_contract_panics(db, caller) == ~has_object(db, caller)

\* The address create_contract returns.
create_contract_address(db, caller) ==
    Address_create(caller, get_object(db, caller).nonce)

\* The database create_contract leaves: a StateObject::new() with the
\* address and the code assigned, put in the overlay.
create_contract(db, caller, code) ==
    set_account(db, create_contract_address(db, caller),
                [StateObject_new EXCEPT
                    !.address = create_contract_address(db, caller),
                    !.code = code])

InitDB ==
    /\ state = InMemoryStateDB_new
    /\ nops = 0
    /\ lastOp = NoOp
    /\ pend = [x \in Keys |-> NoVal]
    /\ comm = [x \in Keys |-> 0]
    /\ tpend = [x \in Keys |-> 0]
    /\ dropped = {}
    /\ snapObjs = EmptyMap
    /\ cleanSince = FALSE
    /\ VMIdle
    /\ LibIdle

\* A trait call on accounts: neither prepare nor commit, no storage touched.
\* Only transfer records its arguments: the others are told apart by the
\* database they leave.
AccountCall(op, ok, db) ==
    /\ nops' = nops + 1
    /\ state' = db
    /\ lastOp' = [NoOp EXCEPT !.op = op, !.ok = ok]
    /\ cleanSince' = (cleanSince /\ op # "create_object")
    /\ UNCHANGED <<pend, comm, tpend, dropped, snapObjs, vmvars, libvars>>

Call_create_object ==
    \E a \in Addrs :
        /\ nops < MaxOps
        /\ AccountCall("create_object", TRUE, create_object(state, a))

Call_set_code ==
    \E a \in Addrs, c \in Codes :
        /\ nops < MaxOps
        /\ AccountCall("set_code", TRUE, set_code(state, a, c))

Call_transfer ==
    \E from \in Addrs, to \in Addrs, v \in Amounts :
        /\ nops < MaxOps
        /\ nops' = nops + 1
        /\ state' = transfer(state, from, to, v)
        /\ lastOp' = [op |-> "transfer", a |-> from, b |-> to, v |-> v,
                      ok |-> transfer_ok(state, from, to, v)]
        /\ cleanSince' = FALSE
        /\ UNCHANGED <<pend, comm, tpend, dropped, snapObjs, vmvars, libvars>>

Call_sub_balance ==
    \E a \in Addrs, v \in Amounts :
        /\ nops < MaxOps
        /\ AccountCall("sub_balance", sub_balance_ok(state, a, v),
                       sub_balance(state, a, v))

Call_add_balance ==
    \E a \in Addrs, v \in Amounts :
        /\ nops < MaxOps
        /\ AccountCall("add_balance", TRUE, add_balance(state, a, v))

Call_set_nonce ==
    \E a \in Addrs, n \in Nonces :
        /\ nops < MaxOps
        /\ AccountCall("set_nonce", TRUE, set_nonce(state, a, n))

Call_set_state ==
    \E a \in Addrs, k \in Slots, v \in StoreVals :
        /\ nops < MaxOps
        /\ nops' = nops + 1
        /\ state' = set_state(state, a, k, v)
        /\ lastOp' = [NoOp EXCEPT !.op = "set_state"]
        /\ pend' = [pend EXCEPT ![<<a, k>>] = v]
        /\ dropped' = dropped \ {<<a, k>>}
        /\ UNCHANGED <<comm, tpend, snapObjs, cleanSince, vmvars, libvars>>

Call_set_transition_state ==
    \E a \in Addrs, k \in Slots, v \in StoreVals :
        /\ nops < MaxOps
        /\ nops' = nops + 1
        /\ state' = set_transition_state(state, a, k, v)
        /\ lastOp' = [NoOp EXCEPT !.op = "set_transition_state"]
        /\ tpend' = [tpend EXCEPT ![<<a, k>>] = v]
        /\ UNCHANGED <<pend, comm, dropped, snapObjs, cleanSince, vmvars, libvars>>

Call_prepare ==
    /\ nops < MaxOps
    /\ nops' = nops + 1
    /\ state' = prepare(state)
    /\ lastOp' = [NoOp EXCEPT !.op = "prepare"]
    /\ pend' = [x \in Keys |-> NoVal]
    /\ tpend' = [x \in Keys |-> 0]
    /\ dropped' = {x \in Keys : pend[x] # NoVal}
    /\ snapObjs' = state'.objects
    /\ cleanSince' = TRUE
    /\ UNCHANGED <<comm, vmvars, libvars>>

Call_commit ==
    /\ nops < MaxOps
    /\ nops' = nops + 1
    /\ state' = commit(state)
    /\ lastOp' = [NoOp EXCEPT !.op = "commit"]
    /\ comm' = [x \in Keys |-> IF pend[x] # NoVal THEN pend[x] ELSE comm[x]]
    /\ pend' = [x \in Keys |-> NoVal]
    /\ cleanSince' = FALSE
    /\ UNCHANGED <<tpend, dropped, snapObjs, vmvars, libvars>>

\* Code given to create_contract.
ContractCodes == {<<0>>, <<91>>}

\* create_contract; the panic ends the run.
Call_create_contract ==
    \E a \in Addrs, c \in ContractCodes :
        /\ nops < MaxOps
        /\ IF create_contract_panics(state, a)
           THEN /\ nops' = MaxOps
                /\ state' = state
                /\ lastOp' = [NoOp EXCEPT !.op = "create_contract", !.ok = FALSE]
                /\ UNCHANGED <<pend, comm, tpend, dropped, snapObjs, cleanSince,
                               vmvars, libvars>>
           ELSE /\ nops' = nops + 1
                /\ state' = create_contract(state, a, c)
                /\ lastOp' = [NoOp EXCEPT !.op = "create_contract",
                                          !.b = create_contract_address(state, a)]
                /\ cleanSince' = FALSE
                /\ UNCHANGED <<pend, comm, tpend, dropped, snapObjs, vmvars, libvars>>

\* Storage, transient storage and the two overlays.
NextDB ==
    \/ Call_create_object
    \/ Call_set_code
    \/ Call_set_state
    \/ Call_set_transition_state
    \/ Call_prepare
    \/ Call_commit

SpecDB == InitDB /\ [][NextDB]_vars

\* Accounts and balances.
NextAcct ==
    \/ Call_create_object
    \/ Call_set_code
    \/ Call_transfer
    \/ Call_sub_balance
    \/ Call_add_balance
    \/ Call_set_nonce
    \/ Call_prepare
    \/ Call_commit

SpecAcct == InitDB /\ [][NextAcct]_vars

\* Accounts and their code.
NextCode ==
    \/ Call_create_object
    \/ Call_set_code
    \/ Call_create_contract
    \/ Call_set_nonce
    \/ Call_prepare
    \/ Call_commit

SpecCode == InitDB /\ [][NextCode]_vars

\* ------------------------------------------------------------------------
\* SpecStack: sequences of Stack calls
\* ------------------------------------------------------------------------

\* Calls made on one stack in a run.
MaxStackOps == 3

\* Length up to which the stacks a run starts from hold arbitrary words.
MaxStackLen == 2

StackWords == {0, 1, WordMax}

DupArgs == 0 .. 3

SwapArgs == 0 .. 2

RECURSIVE SeqsUpTo(_, _)
SeqsUpTo(S, n) ==
    IF n = 0 THEN {<<>>}
    ELSE LET shorter == SeqsUpTo(S, n - 1)
         IN  shorter \cup {Append(q, x) : q \in shorter, x \in S}

\* The stacks a run starts from: the short ones, and the stacks that
\* STACK_CAPACITY - 1 and STACK_CAPACITY pushes of zero have built.
InitStacks ==
    SeqsUpTo(StackWords, MaxStackLen)
        \cup {[i \in 1 .. n |-> 0] : n \in {STACK_CAPACITY - 1, STACK_CAPACITY}}

StackAlive == IF shist = <<>> THEN TRUE ELSE shist[Len(shist)].ok

\* One Stack call: what it was given, what it returned, whether it
\* returned at all (ok) or panicked, and the stack it was made on.
StackCall(op, arg, ret, ok, after) ==
    /\ shist' = Append(shist, [op |-> op, arg |-> arg, ret |-> ret, ok |-> ok,
                               before |-> stk])
    /\ stk' = after
    /\ UNCHANGED <<state, dbhist, vmvars, mem, mhist, asmIn, asmOut>>

InitStack ==
    /\ state = InMemoryStateDB_new
    /\ nops = 0
    /\ lastOp = NoOp
    /\ pend = [x \in Keys |-> NoVal]
    /\ comm = [x \in Keys |-> 0]
    /\ tpend = [x \in Keys |-> 0]
    /\ dropped = {}
    /\ snapObjs = EmptyMap
    /\ cleanSince = FALSE
    /\ VMIdle
    /\ stk \in InitStacks
    /\ shist = <<>>
    /\ mem = <<>>
    /\ mhist = <<>>
    /\ asmIn = <<>>
    /\ asmOut = NoAsm

Stack_push ==
    \E v \in StackWords :
        /\ StackAlive
        /\ Len(shist) < MaxStackOps
        /\ StackCall("push", v, NoVal, TRUE, push(stk, v))

Stack_pop ==
    /\ StackAlive
    /\ Len(shist) < MaxStackOps
    /\ IF pop_panics(stk)
       THEN StackCall("pop", 0, NoVal, FALSE, stk)
       ELSE StackCall("pop", 0, popped(stk, 1), TRUE, pop_n(stk, 1))

Stack_dup ==
    \E n \in DupArgs :
        /\ StackAlive
        /\ Len(shist) < MaxStackOps
        /\ IF dup_panics(stk, n)
           THEN StackCall("dup", n, NoVal, FALSE, stk)
           ELSE StackCall("dup", n, NoVal, TRUE, dup(stk, n))

Stack_swap ==
    \E n \in SwapArgs :
        /\ StackAlive
        /\ Len(shist) < MaxStackOps
        /\ IF swap_panics(stk, n)
           THEN StackCall("swap", n, NoVal, FALSE, stk)
           ELSE StackCall("swap", n, NoVal, TRUE, swap(stk, n))

NextStack ==
    \/ Stack_push
    \/ Stack_pop
    \/ Stack_dup
    \/ Stack_swap

SpecStack == InitStack /\ [][NextStack]_vars

\* ------------------------------------------------------------------------
\* SpecMem: sequences of Memory calls
\* ------------------------------------------------------------------------

\* Calls made on one memory in a run.
MaxMemOps == 1

\* Length up to which the buffers a run starts from hold arbitrary bytes.
MaxMemLen == 2

MemBytes == {1, 2}

MemWords == {0, 1, WordMax}

MemOffsets == {0, 1, 3, UsizeMax}

MemSizes == {0, 1, 2}

MemValues == {<<>>, <<9>>, <<9, 8>>}

InitMemories == SeqsUpTo(MemBytes, MaxMemLen)

MemAlive == IF mhist = <<>> THEN TRUE ELSE mhist[Len(mhist)].ok

\* One Memory call: its offset (for copy the pair <<dst, src>>), the length
\* of its span, the bytes written (none for a read), what it returned,
\* whether it returned at all, and the buffer it was made on.
MemCall(op, off, size, data, ret, panics, after) ==
    /\ mhist' = Append(mhist, [op |-> op, off |-> off, size |-> size,
                               data |-> data,
                               ret |-> IF panics THEN <<>> ELSE ret,
                               ok |-> ~panics, before |-> mem])
    /\ mem' = IF panics THEN mem ELSE after
    /\ UNCHANGED <<state, dbhist, vmvars, stk, shist, asmIn, asmOut>>

InitMem ==
    /\ state = InMemoryStateDB_new
    /\ nops = 0
    /\ lastOp = NoOp
    /\ pend = [x \in Keys |-> NoVal]
    /\ comm = [x \in Keys |-> 0]
    /\ tpend = [x \in Keys |-> 0]
    /\ dropped = {}
    /\ snapObjs = EmptyMap
    /\ cleanSince = FALSE
    /\ VMIdle
    /\ stk = <<>>
    /\ shist = <<>>
    /\ mem \in InitMemories
    /\ mhist = <<>>
    /\ asmIn = <<>>
    /\ asmOut = NoAsm

Mem_read ==
    \E off \in MemOffsets, size \in MemSizes :
        /\ MemAlive
        /\ Len(mhist) < MaxMemOps
        /\ MemCall("read", off, size, <<>>, read(mem, off, size),
                   size # 0 /\ span_overflows(off, size),
                   read_mem(mem, off, size))

Mem_read32 ==
    \E off \in MemOffsets :
        /\ MemAlive
        /\ Len(mhist) < MaxMemOps
        /\ MemCall("read32", off, 32, <<>>, read32(mem, off),
                   span_overflows(off, 32), read32_mem(mem, off))

Mem_write ==
    \E off \in MemOffsets, value \in MemValues :
        /\ MemAlive
        /\ Len(mhist) < MaxMemOps
        /\ MemCall("write", off, Len(value), value, <<>>,
                   Len(value) > 0 /\ span_overflows(off, Len(value)),
                   write(mem, off, value))

Mem_write8 ==
    \E off \in MemOffsets, b \in MemBytes :
        /\ MemAlive
        /\ Len(mhist) < MaxMemOps
        /\ MemCall("write8", off, 1, <<b>>, <<>>, span_overflows(off, 1),
                   write8(mem, off, b))

Mem_write32 ==
    \E off \in MemOffsets, v \in MemWords :
        /\ MemAlive
        /\ Len(mhist) < MaxMemOps
        /\ MemCall("write32", off, 32, to_be_bytes32(v), <<>>,
                   span_overflows(off, 32), write32(mem, off, v))

Mem_write_with_size ==
    \E off \in MemOffsets, size \in MemSizes, value \in MemValues :
        /\ MemAlive
        /\ Len(mhist) < MaxMemOps
        /\ MemCall("write_with_size", off, size, value, <<>>,
                   span_overflows(off, size)
                        \/ write_with_size_panics(off, size, value),
                   write_with_size(mem, off, size, value))

Mem_copy ==
    \E dst \in MemOffsets, src \in MemOffsets, size \in MemSizes :
        /\ MemAlive
        /\ Len(mhist) < MaxMemOps
        /\ MemCall("copy", <<dst, src>>, size, <<>>, <<>>,
                   copy_panics(mem, dst, src, size),
                   copy(mem, dst, src, size))

NextMem ==
    \/ Mem_read
    \/ Mem_read32
    \/ Mem_write
    \/ Mem_write8
    \/ Mem_write32
    \/ Mem_write_with_size
    \/ Mem_copy

SpecMem == InitMem /\ [][NextMem]_vars

\* ------------------------------------------------------------------------
\* SpecAsm: Assembler::asm on a text
\* ------------------------------------------------------------------------

\* Lines of a text.
MaxAsmLines == 2

\* Operands: 0, 1, ff, 100, 10000, and two with a character that is no
\* hexadecimal digit; each with and without the "0x" prefix.
AsmDigits == {<<0>>, <<1>>, <<15, 15>>, <<1, 0, 0>>, <<1, 0, 0, 0, 0>>,
              <<NotHex>>, <<1, NotHex>>}

AsmOperands == [prefix : BOOLEAN, digits : AsmDigits]

AsmLines ==
    {<<>>, <<"STOP">>, <<"FOO">>, <<"PUSH1">>, <<"PUSH2">>}
        \cup {<<m, o>> : m \in {"PUSH1", "PUSH2"}, o \in AsmOperands}

InitAsm ==
    /\ state = InMemoryStateDB_new
    /\ nops = 0
    /\ lastOp = NoOp
    /\ pend = [x \in Keys |-> NoVal]
    /\ comm = [x \in Keys |-> 0]
    /\ tpend = [x \in Keys |-> 0]
    /\ dropped = {}
    /\ snapObjs = EmptyMap
    /\ cleanSince = FALSE
    /\ VMIdle
    /\ stk = <<>>
    /\ shist = <<>>
    /\ mem = <<>>
    /\ mhist = <<>>
    /\ asmIn \in SeqsUpTo(AsmLines, MaxAsmLines)
    /\ asmOut = NoAsm

Asm_asm ==
    /\ asmOut = NoAsm
    /\ asmOut' = asm(asmIn)
    /\ UNCHANGED <<state, dbhist, vmvars, stk, shist, mem, mhist, asmIn>>

NextAsm == Asm_asm

SpecAsm == InitAsm /\ [][NextAsm]_vars

\* ------------------------------------------------------------------------
\* Spec: the interpreter (vm.rs) and the handlers (instructions.rs)
\* ------------------------------------------------------------------------

\* The accounts of a run: the contract run() executes, the contract its
\* sub-call targets, and the externally owned sender.
Actors == [root |-> 1, callee |-> 2, sender |-> 3, leaf |-> 4]

ROOT == Actors.root

CALLEE == Actors.callee

SENDER == Actors.sender

\* The contract that the sub-call target calls in turn.
LEAF == Actors.leaf

VMSlots == {0}

Top == frames[Len(frames)]

\* The loop of run_with_ctx is about to fetch the byte op at pc.
Fetch(op) ==
    /\ status = "run"
    /\ Top.pc < Len(Top.code)
    /\ Top.code[Top.pc + 1] = op

\* The handler of op returned Ok leaving the frame ctx: pc += size, and the
\* loop breaks with Ok(()) when pc >= code.len().
Continue(ctx, op, e) ==
    LET c == [ctx EXCEPT !.pc = @ + get_opcode_size(op)]
    IN  /\ frames' = [frames EXCEPT ![Len(frames)] = c]
        /\ status' = IF c.pc >= Len(c.code) THEN "ret" ELSE "run"
        /\ result' = IF c.pc >= Len(c.code) THEN "Ok" ELSE "none"
        /\ ev' = e

\* The handler ended the frame ctx: Err(Stop) breaks the loop (res = "Ok"),
\* any other error is returned.
Finish(ctx, res, e) ==
    /\ frames' = [frames EXCEPT ![Len(frames)] = ctx]
    /\ status' = "ret"
    /\ result' = res
    /\ ev' = e

\* An unwrap on an empty stack (event "underflow") or an index out of range:
\* the process aborts.
Panic(e) ==
    /\ status' = "panic"
    /\ result' = "panic"
    /\ ev' = e
    /\ UNCHANGED <<frames, conts, state, dbcalls, sstores>>

\* ctx.code[ctx.pc] with pc out of range (run_with_ctx does not test pc
\* before the first fetch, nor does JUMP bound its target).
FetchPanic ==
    /\ status = "run"
    /\ Top.pc >= Len(Top.code)
    /\ Panic([kind |-> "fetch"])
    /\ UNCHANGED <<dbhist, libvars>>

InvalidOpcode ==
    /\ status = "run"
    /\ Top.pc < Len(Top.code)
    /\ Top.code[Top.pc + 1] \notin OPCODE_TABLE
    /\ Finish(Top, "InvalidOpcode", [kind |-> "invalid_opcode"])
    /\ UNCHANGED <<conts, state, dbcalls, sstores, dbhist, libvars>>

Op_STOP ==
    /\ Fetch(STOP)
    /\ Finish(Top, "Ok", [kind |-> "stop"])
    /\ UNCHANGED <<conts, state, dbcalls, sstores, dbhist, libvars>>

Op_PUSH1 ==
    /\ Fetch(PUSH1)
    /\ IF Top.pc + 2 > Len(Top.code)
       THEN Panic([kind |-> "push"])
       ELSE /\ Continue([Top EXCEPT !.stack = push(@, Top.code[Top.pc + 2])],
                        PUSH1, [kind |-> "push"])
            /\ UNCHANGED <<conts, state, dbcalls, sstores>>
    /\ UNCHANGED <<dbhist, libvars>>

\* push::<2>: the two bytes after the opcode, big-endian.
Op_PUSH2 ==
    /\ Fetch(PUSH2)
    /\ IF Top.pc + 3 > Len(Top.code)
       THEN Panic([kind |-> "push"])
       ELSE /\ Continue([Top EXCEPT
                            !.stack = push(@, from_be_slice(
                                SubSeq(Top.code, Top.pc + 2, Top.pc + 3)))],
                        PUSH2, [kind |-> "push"])
            /\ UNCHANGED <<conts, state, dbcalls, sstores>>
    /\ UNCHANGED <<dbhist, libvars>>

Op_JUMPDEST ==
    /\ Fetch(JUMPDEST)
    /\ Continue(Top, JUMPDEST, [kind |-> "jumpdest"])
    /\ UNCHANGED <<conts, state, dbcalls, sstores, dbhist, libvars>>

Op_MSTORE8 ==
    /\ Fetch(MSTORE8)
    /\ IF Len(Top.stack) < 2
       THEN Panic([kind |-> "underflow"])
       ELSE LET offset == popped(Top.stack, 1)
                value == popped(Top.stack, 2)
            IN  /\ Continue([Top EXCEPT
                                !.stack = pop_n(@, 2),
                                !.memory = write8(@, u256_to_usize(offset),
                                                  value % 256)],
                            MSTORE8, [kind |-> "mstore8"])
                /\ UNCHANGED <<conts, state, dbcalls, sstores>>
    /\ UNCHANGED <<dbhist, libvars>>

Op_SLOAD ==
    /\ Fetch(SLOAD)
    /\ IF Len(Top.stack) < 1
       THEN Panic([kind |-> "underflow"])
       ELSE LET key == popped(Top.stack, 1)
            IN  /\ Continue([Top EXCEPT
                                !.stack = push(pop_n(@, 1),
                                               get_state(state, Top.contract, key))],
                            SLOAD, [kind |-> "sload", key |-> key])
                /\ UNCHANGED <<conts, state, dbcalls, sstores>>
    /\ UNCHANGED <<dbhist, libvars>>

Op_SSTORE ==
    /\ Fetch(SSTORE)
    /\ IF Len(Top.stack) < 2
       THEN Panic([kind |-> "underflow"])
       ELSE LET key == popped(Top.stack, 1)
                value == popped(Top.stack, 2)
            IN  /\ Continue([Top EXCEPT !.stack = pop_n(@, 2)], SSTORE,
                            [kind |-> "sstore", key |-> key])
                /\ state' = set_state(state, Top.contract, key, value)
                /\ sstores' = stored(sstores, Top.contract, key, value)
                /\ UNCHANGED <<conts, dbcalls>>
    /\ UNCHANGED <<dbhist, libvars>>

\* jump: pc becomes the target t, and the byte tested is code[pc + 1].
jump_tested_index(counter) == u256_to_usize(counter) + 1

Op_JUMP ==
    /\ Fetch(JUMP)
    /\ IF Len(Top.stack) < 1
       THEN Panic([kind |-> "underflow"])
       ELSE LET counter == popped(Top.stack, 1)
                ctx == [Top EXCEPT !.stack = pop_n(@, 1),
                                   !.pc = u256_to_usize(counter)]
                e == [kind |-> "jump", t |-> counter]
            IN  IF jump_tested_index(counter) >= Len(Top.code)
                THEN Panic(e)
                ELSE /\ IF Top.code[jump_tested_index(counter) + 1] # JUMPDEST
                        THEN Finish(ctx, "InvalidJumpDestination", e)
                        ELSE Continue(ctx, JUMP, e)
                     /\ UNCHANGED <<conts, state, dbcalls, sstores>>
    /\ UNCHANGED <<dbhist, libvars>>

\* jumpi: pc = counter when the condition is not zero, with no test of the
\* destination; the loop then adds 1.
Op_JUMPI ==
    /\ Fetch(JUMPI)
    /\ IF Len(Top.stack) < 2
       THEN Panic([kind |-> "underflow"])
       ELSE LET counter == popped(Top.stack, 1)
                condition == popped(Top.stack, 2)
                ctx == [Top EXCEPT
                            !.stack = pop_n(@, 2),
                            !.pc = IF condition # 0
                                   THEN u256_to_usize(counter) ELSE @]
            IN  /\ Continue(ctx, JUMPI,
                            [kind |-> "jumpi", t |-> counter, c |-> condition])
                /\ UNCHANGED <<conts, state, dbcalls, sstores>>
    /\ UNCHANGED <<dbhist, libvars>>

\* invalid returns Err(Stop), as stop does.
Op_INVALID ==
    /\ Fetch(INVALID)
    /\ Finish(Top, "Ok", [kind |-> "invalid"])
    /\ UNCHANGED <<conts, state, dbcalls, sstores, dbhist, libvars>>

\* add, mul, sub: a is popped first, then b.
Arith(op, a, b) ==
    CASE op = ADD -> wrapping_add(a, b)
      [] op = MUL -> wrapping_mul(a, b)
      [] op = SUB -> wrapping_sub(a, b)

Binary(op) ==
    /\ Fetch(op)
    /\ IF Len(Top.stack) < 2
       THEN Panic([kind |-> "underflow"])
       ELSE LET a == popped(Top.stack, 1)
                b == popped(Top.stack, 2)
            IN  /\ Continue([Top EXCEPT
                                !.stack = push(pop_n(@, 2), Arith(op, a, b))],
                            op, [kind |-> "arith", op |-> op, a |-> a, b |-> b])
                /\ UNCHANGED <<conts, state, dbcalls, sstores>>
    /\ UNCHANGED <<dbhist, libvars>>

Op_ADD ==
    /\ status = "run"
    /\ Binary(ADD)

Op_MUL ==
    /\ status = "run"
    /\ Binary(MUL)

Op_SUB ==
    /\ status = "run"
    /\ Binary(SUB)

\* div, modulo, sign_div, sign_modulo, byte, shl, shr: a is popped first,
\* then b, and the handler pushes f(a, b).
Alu(op, a, b) ==
    CASE op = DIV -> wrapping_div(a, b)
      [] op = MOD -> wrapping_rem(a, b)
      [] op = SDIV -> i256_div(a, b)
      [] op = SMOD -> i256_mod(a, b)
      [] op = BYTE -> byte(a, b)
      [] op = SHL -> shl(a, b)
      [] op = SHR -> shr(a, b)

alu_panics(op, a, b) == op \in {DIV, MOD} /\ div_rem_panics(b)

BinaryAlu(op) ==
    /\ Fetch(op)
    /\ IF Len(Top.stack) < 2
       THEN Panic([kind |-> "underflow"])
       ELSE LET a == popped(Top.stack, 1)
                b == popped(Top.stack, 2)
                e == [kind |-> "alu", op |-> op, a |-> a, b |-> b]
            IN  IF alu_panics(op, a, b)
                THEN Panic(e)
                ELSE /\ Continue([Top EXCEPT
                                     !.stack = push(pop_n(@, 2), Alu(op, a, b))],
                                 op, e)
                     /\ UNCHANGED <<conts, state, dbcalls, sstores>>
    /\ UNCHANGED <<dbhist, libvars>>

Op_DIV ==
    /\ status = "run"
    /\ BinaryAlu(DIV)

Op_SDIV ==
    /\ status = "run"
    /\ BinaryAlu(SDIV)

Op_MOD ==
    /\ status = "run"
    /\ BinaryAlu(MOD)

Op_SMOD ==
    /\ status = "run"
    /\ BinaryAlu(SMOD)

Op_BYTE ==
    /\ status = "run"
    /\ BinaryAlu(BYTE)

Op_SHL ==
    /\ status = "run"
    /\ BinaryAlu(SHL)

Op_SHR ==
    /\ status = "run"
    /\ BinaryAlu(SHR)

\* call_data_load. The word pushed is the one the 32 loaded bytes spell, of
\* which a word of the model keeps the low WordBits bits; the event keeps
\* the bytes. The build is with or without overflow checks.
Op_CALLDATALOAD ==
    /\ Fetch(CALLDATALOAD)
    /\ IF Len(Top.stack) < 1
       THEN Panic([kind |-> "underflow"])
       ELSE \E overflow_checks \in BOOLEAN :
            LET offset == u256_to_usize(popped(Top.stack, 1))
            IN  IF call_data_load_panics(Top.call_data, offset, overflow_checks)
                THEN Panic([kind |-> "calldataload_panic"])
                ELSE /\ Continue([Top EXCEPT
                            !.stack = push(pop_n(@, 1),
                                from_be_slice(call_data_load(Top.call_data, offset)))],
                            CALLDATALOAD,
                            [kind |-> "calldataload",
                             loaded |-> call_data_load(Top.call_data, offset)])
                     /\ UNCHANGED <<conts, state, dbcalls, sstores>>
    /\ UNCHANGED <<dbhist, libvars>>

\* The copy handlers, with the words they popped after the first k: the
\* destination, the offset in the source and the size.
DataCopy(op, source, k) ==
    IF Len(Top.stack) < k + 3
    THEN Panic([kind |-> "underflow"])
    ELSE \E overflow_checks \in BOOLEAN :
         LET dst_offset == u256_to_usize(popped(Top.stack, k + 1))
             offset == u256_to_usize(popped(Top.stack, k + 2))
             size == u256_to_usize(popped(Top.stack, k + 3))
         IN  IF data_copy_panics(op, source, dst_offset, offset, size,
                                 overflow_checks)
             THEN Panic([kind |-> "copy_panic"])
             ELSE /\ Continue([Top EXCEPT
                         !.stack = pop_n(@, k + 3),
                         !.memory = data_copy(op, @, source, dst_offset,
                                              offset, size)],
                         op, [kind |-> "copy", op |-> op])
                  /\ UNCHANGED <<conts, state, dbcalls, sstores>>

Op_CALLDATACOPY ==
    /\ Fetch(CALLDATACOPY)
    /\ DataCopy(CALLDATACOPY, Top.call_data, 0)
    /\ UNCHANGED <<dbhist, libvars>>

Op_CODECOPY ==
    /\ Fetch(CODECOPY)
    /\ DataCopy(CODECOPY, Top.code, 0)
    /\ UNCHANGED <<dbhist, libvars>>

Op_RETURNDATACOPY ==
    /\ Fetch(RETURNDATACOPY)
    /\ DataCopy(RETURNDATACOPY, Top.return_data, 0)
    /\ UNCHANGED <<dbhist, libvars>>

\* ext_code_copy pops the address first.
Op_EXTCODECOPY ==
    /\ Fetch(EXTCODECOPY)
    /\ IF Len(Top.stack) < 1
       THEN Panic([kind |-> "underflow"])
       ELSE DataCopy(EXTCODECOPY,
                     get_code(state, u256_to_address(popped(Top.stack, 1))), 1)
    /\ UNCHANGED <<dbhist, libvars>>

\* log::<N>: pops offset and size, then N topics, and reads the data out of
\* memory; the entry is not given to the StateDB ("TODO log").
Op_LOG ==
    /\ status = "run"
    /\ Top.pc < Len(Top.code)
    /\ Top.code[Top.pc + 1] \in LOG0 .. LOG4
    /\ LET N == Top.code[Top.pc + 1] - LOG0
       IN  IF Len(Top.stack) < N + 2
           THEN Panic([kind |-> "underflow"])
           ELSE LET offset == u256_to_usize(popped(Top.stack, 1))
                    size == u256_to_usize(popped(Top.stack, 2))
                IN  IF size > 0 /\ span_overflows(offset, size)
                    THEN Panic([kind |-> "log_panic"])
                    ELSE /\ Continue([Top EXCEPT
                                !.stack = pop_n(@, N + 2),
                                !.memory = read_mem(@, offset, size)],
                                Top.code[Top.pc + 1], [kind |-> "log", n |-> N])
                         /\ UNCHANGED <<conts, state, dbcalls, sstores>>
    /\ UNCHANGED <<dbhist, libvars>>

\* tload pops the key and pushes zero ("TODO implement tload").
Op_TLOAD ==
    /\ Fetch(TLOAD)
    /\ IF Len(Top.stack) < 1
       THEN Panic([kind |-> "underflow"])
       ELSE /\ Continue([Top EXCEPT !.stack = push(pop_n(@, 1), 0)], TLOAD,
                        [kind |-> "tload", key |-> popped(Top.stack, 1)])
            /\ UNCHANGED <<conts, state, dbcalls, sstores>>
    /\ UNCHANGED <<dbhist, libvars>>

\* tstore pops the key and the value and pushes zero ("TODO implement
\* tstore").
Op_TSTORE ==
    /\ Fetch(TSTORE)
    /\ IF Len(Top.stack) < 2
       THEN Panic([kind |-> "underflow"])
       ELSE /\ Continue([Top EXCEPT !.stack = push(pop_n(@, 2), 0)], TSTORE,
                        [kind |-> "tstore", key |-> popped(Top.stack, 1)])
            /\ UNCHANGED <<conts, state, dbcalls, sstores>>
    /\ UNCHANGED <<dbhist, libvars>>

\* ret and revert: return_data = memory.read(offset, size).
Halt(op, res, kind) ==
    IF Len(Top.stack) < 2
    THEN Panic([kind |-> "underflow"])
    ELSE LET offset == u256_to_usize(popped(Top.stack, 1))
             size == u256_to_usize(popped(Top.stack, 2))
         IN  /\ Finish([Top EXCEPT
                            !.stack = pop_n(@, 2),
                            !.return_data = read(Top.memory, offset, size),
                            !.memory = read_mem(@, offset, size)],
                       res, [kind |-> kind])
             /\ UNCHANGED <<conts, state, dbcalls, sstores>>

Op_RETURN ==
    /\ Fetch(RETURN)
    /\ Halt(RETURN, "Ok", "return")
    /\ UNCHANGED <<dbhist, libvars>>

Op_REVERT ==
    /\ Fetch(REVERT)
    /\ Halt(REVERT, "Revert", "revert")
    /\ UNCHANGED <<dbhist, libvars>>

\* A sub-call that counts the depth in the parent frame.
EnterCall_deepens_parent(op, db, parent, child, ret_offset, ret_size, e) ==
    /\ state' = prepare(db)
    /\ dbcalls' = [dbcalls EXCEPT !.prepare = @ + 1]
    /\ sstores' = entered(sstores)
    /\ frames' = Append([frames EXCEPT ![Len(frames)] =
                            [parent EXCEPT !.depth = @ + 1]], child)
    /\ conts' = Append(conts,
            [op |-> op, ret_offset |-> ret_offset, ret_size |-> ret_size,
             before |-> [k \in VMSlots |-> get_state(state, Top.contract, k)],
             to |-> e.to, value |-> e.value,
             balances |-> [a \in 0 .. AddrMod - 1 |-> get_balance(state, a)]])
    /\ status' = "run"
    /\ result' = "none"
    /\ ev' = e

\* The sub-call handlers up to the recursive run_with_ctx: prepare() and
\* the child frame; the handler is suspended with what it needs afterwards.
EnterCall(op, db, parent, child, ret_offset, ret_size, e) ==
    /\ state' = prepare(db)
    /\ dbcalls' = [dbcalls EXCEPT !.prepare = @ + 1]
    /\ sstores' = entered(sstores)
    /\ frames' = Append([frames EXCEPT ![Len(frames)] = parent], child)
    /\ conts' = Append(conts,
            [op |-> op, ret_offset |-> ret_offset, ret_size |-> ret_size,
             before |-> [k \in VMSlots |-> get_state(state, Top.contract, k)],
             to |-> e.to, value |-> e.value,
             balances |-> [a \in 0 .. AddrMod - 1 |-> get_balance(state, a)]])
    /\ status' = "run"
    /\ result' = "none"
    /\ ev' = e

Op_CALL ==
    /\ Fetch(CALL)
    /\ IF Len(Top.stack) < 7
       THEN Panic([kind |-> "underflow"])
       ELSE LET to == popped(Top.stack, 2)
                value == popped(Top.stack, 3)
                args_offset == u256_to_usize(popped(Top.stack, 4))
                args_size == u256_to_usize(popped(Top.stack, 5))
                ret_offset == u256_to_usize(popped(Top.stack, 6))
                ret_size == u256_to_usize(popped(Top.stack, 7))
                parent == [Top EXCEPT
                              !.stack = pop_n(@, 7),
                              !.memory = read_mem(@, args_offset, args_size)]
                new_ctx == call_new_ctx(state, Top, to, value,
                                read(Top.memory, args_offset, args_size))
                e == [kind |-> "call", op |-> CALL, to |-> to, value |-> value,
                      args_offset |-> args_offset, args_size |-> args_size]
            IN  IF call_transfer_fails(state, Top, to, value)
                THEN /\ Continue(call_insufficient(parent), CALL, e)
                     /\ UNCHANGED <<conts, state, dbcalls, sstores>>
                ELSE EnterCall(CALL,
                               IF value # 0
                               THEN transfer(state, Top.caller,
                                             new_ctx.contract, value)
                               ELSE state,
                               parent, new_ctx, ret_offset, ret_size, e)
    /\ UNCHANGED <<dbhist, libvars>>

\* delegate_call, call_code and static_call pop six words: no value.
EnterCall6(op, kind) ==
    IF Len(Top.stack) < 6
    THEN Panic([kind |-> "underflow"])
    ELSE LET to == popped(Top.stack, 2)
             args_offset == u256_to_usize(popped(Top.stack, 3))
             args_size == u256_to_usize(popped(Top.stack, 4))
             ret_offset == u256_to_usize(popped(Top.stack, 5))
             ret_size == u256_to_usize(popped(Top.stack, 6))
             call_data == read(Top.memory, args_offset, args_size)
             parent == [Top EXCEPT
                           !.stack = pop_n(@, 6),
                           !.memory = read_mem(@, args_offset, args_size)]
             new_ctx ==
                CASE kind = "delegate" -> delegate_call_new_ctx(state, Top, to, call_data)
                  [] kind = "callcode" -> call_code_new_ctx(state, Top, to, call_data)
                  [] OTHER -> static_call_new_ctx(state, Top, to, call_data)
         IN  EnterCall(op, state, parent, new_ctx, ret_offset, ret_size,
                       [kind |-> "call", op |-> op, to |-> to, value |-> 0,
                        args_offset |-> args_offset, args_size |-> args_size])

Op_DELEGATECALL ==
    /\ Fetch(DELEGATECALL)
    /\ EnterCall6(DELEGATECALL, "delegate")
    /\ UNCHANGED <<dbhist, libvars>>

Op_CALLCODE ==
    /\ Fetch(CALLCODE)
    /\ EnterCall6(CALLCODE, "callcode")
    /\ UNCHANGED <<dbhist, libvars>>

Op_STATICCALL ==
    /\ Fetch(STATICCALL)
    /\ EnterCall6(STATICCALL, "static")
    /\ UNCHANGED <<dbhist, libvars>>

\* The rest of a sub-call handler, once the child's run_with_ctx returned:
\* push 1 and commit, or push 0; splice the return data; return Ok.
CallReturn ==
    /\ status = "ret"
    /\ Len(frames) > 1
    /\ conts[Len(conts)].op \notin {CREATE, CREATE2}
    /\ LET new_ctx == Top
           k == conts[Len(conts)]
           ctx == frames[Len(frames) - 1]
           e == [kind |-> "callret", op |-> k.op, res |-> result,
                 ret_offset |-> k.ret_offset, ret_size |-> k.ret_size,
                 R |-> new_ctx.return_data, before |-> k.before,
                 to |-> k.to, value |-> k.value, balances |-> k.balances]
           after == [ctx EXCEPT
                        !.stack = push(@, call_result_word(result)),
                        !.memory = write_with_size(@, k.ret_offset, k.ret_size,
                                                   new_ctx.return_data),
                        !.return_data = new_ctx.return_data]
       IN  IF write_with_size_panics(k.ret_offset, k.ret_size, new_ctx.return_data)
           THEN Panic(e)
           ELSE /\ state' = IF result = "Ok" /\ commits_on_ok(k.op)
                            THEN commit(state) ELSE state
                /\ dbcalls' = IF result = "Ok" /\ commits_on_ok(k.op)
                              THEN [dbcalls EXCEPT !.commit = @ + 1]
                              ELSE dbcalls
                /\ sstores' = returned(sstores, result)
                /\ conts' = SubSeq(conts, 1, Len(conts) - 1)
                /\ LET c == [after EXCEPT !.pc = @ + get_opcode_size(k.op)]
                   IN  /\ frames' = Append(SubSeq(frames, 1, Len(frames) - 2), c)
                       /\ status' = IF c.pc >= Len(c.code) THEN "ret" ELSE "run"
                       /\ result' = IF c.pc >= Len(c.code) THEN "Ok" ELSE "none"
                       /\ ev' = e
    /\ UNCHANGED <<dbhist, libvars>>

\* create and create2 up to the recursive run_with_ctx of init_contract:
\* the words popped after the value are the offset and the size (and the
\* salt); a transfer that fails ends the parent frame with its error. No
\* prepare() and no commit() is made.
EnterCreate(op) ==
    IF Len(Top.stack) < (IF op = CREATE2 THEN 4 ELSE 3)
    THEN Panic([kind |-> "underflow"])
    ELSE LET value == popped(Top.stack, 1)
             offset == u256_to_usize(popped(Top.stack, 2))
             size == u256_to_usize(popped(Top.stack, 3))
             code == read(Top.memory, offset, size)
             contract_address ==
                IF op = CREATE2
                THEN Address_create2(Top.caller, popped(Top.stack, 4), code)
                ELSE Address_create(Top.caller, get_nonce(state, Top.caller))
             parent == [Top EXCEPT
                           !.stack = pop_n(@, IF op = CREATE2 THEN 4 ELSE 3),
                           !.memory = read_mem(@, offset, size)]
             e == [kind |-> "create", op |-> op, addr |-> contract_address]
         IN  IF value # 0 /\ ~transfer_ok(state, Top.contract, contract_address, value)
             THEN /\ Finish(parent, "InsufficientBalance", e)
                  /\ UNCHANGED <<conts, state, dbcalls, sstores>>
             ELSE /\ state' = IF value # 0
                              THEN transfer(state, Top.contract, contract_address, value)
                              ELSE state
                  /\ frames' = Append([frames EXCEPT ![Len(frames)] = parent],
                                      init_contract_new_ctx(Top, contract_address, code))
                  /\ conts' = Append(conts, [op |-> op, addr |-> contract_address])
                  /\ status' = "run"
                  /\ result' = "none"
                  /\ ev' = e
                  /\ sstores' = entered(sstores)
                  /\ UNCHANGED dbcalls

Op_CREATE ==
    /\ Fetch(CREATE)
    /\ EnterCreate(CREATE)
    /\ UNCHANGED <<dbhist, libvars>>

Op_CREATE2 ==
    /\ Fetch(CREATE2)
    /\ EnterCreate(CREATE2)
    /\ UNCHANGED <<dbhist, libvars>>

\* create and create2 that push 0 when the init code failed, as the
\* sub-call handlers do, and let the parent go on.
CreateReturn_swallows_error ==
    /\ status = "ret"
    /\ Len(frames) > 1
    /\ conts[Len(conts)].op \in {CREATE, CREATE2}
    /\ LET k == conts[Len(conts)]
           c == [frames[Len(frames) - 1] EXCEPT
                    !.stack = push(@, IF result = "Ok" THEN k.addr ELSE 0),
                    !.pc = @ + get_opcode_size(k.op)]
       IN  /\ conts' = SubSeq(conts, 1, Len(conts) - 1)
           /\ ev' = [kind |-> "createret", op |-> k.op, res |-> result,
                     addr |-> k.addr]
           /\ state' = IF result = "Ok"
                       THEN set_code(state, k.addr, Top.return_data)
                       ELSE state
           /\ frames' = Append(SubSeq(frames, 1, Len(frames) - 2), c)
           /\ status' = IF c.pc >= Len(c.code) THEN "ret" ELSE "run"
           /\ result' = IF c.pc >= Len(c.code) THEN "Ok" ELSE "none"
    /\ sstores' = returned(sstores, result)
    /\ UNCHANGED <<dbcalls, dbhist, libvars>>

\* The rest of create and create2, once the run_with_ctx of init_contract
\* returned: its error is the handler's error (`?`), else the return data
\* becomes the code of the address, which is pushed.
CreateReturn ==
    /\ status = "ret"
    /\ Len(frames) > 1
    /\ conts[Len(conts)].op \in {CREATE, CREATE2}
    /\ LET new_ctx == Top
           k == conts[Len(conts)]
           ctx == frames[Len(frames) - 1]
           e == [kind |-> "createret", op |-> k.op, res |-> result,
                 addr |-> k.addr]
       IN  /\ conts' = SubSeq(conts, 1, Len(conts) - 1)
           /\ ev' = e
           /\ IF result = "Ok"
              THEN LET c == [ctx EXCEPT !.stack = push(@, k.addr),
                                        !.pc = @ + get_opcode_size(k.op)]
                   IN  /\ state' = set_code(state, k.addr, new_ctx.return_data)
                       /\ frames' = Append(SubSeq(frames, 1, Len(frames) - 2), c)
                       /\ status' = IF c.pc >= Len(c.code) THEN "ret" ELSE "run"
                       /\ result' = IF c.pc >= Len(c.code) THEN "Ok" ELSE "none"
              ELSE /\ state' = state
                   /\ frames' = SubSeq(frames, 1, Len(frames) - 1)
                   /\ status' = "ret"
                   /\ result' = result
    /\ sstores' = returned(sstores, result)
    /\ UNCHANGED <<dbcalls, dbhist, libvars>>

\* Interpreter::run returns what the root frame's run_with_ctx returned.
RunReturn ==
    /\ status = "ret"
    /\ Len(frames) = 1
    /\ status' = "done"
    /\ ev' = [kind |-> "run_return"]
    /\ UNCHANGED <<frames, conts, state, result, dbcalls, sstores, dbhist, libvars>>

\* -- the programs run

Push1(b) == <<PUSH1, b>>

\* SSTORE(key, value) and SLOAD(key) with their operands pushed.
StoreSeq(key, value) == Push1(value) \o Push1(key) \o <<SSTORE>>

LoadSeq(key) == Push1(key) \o <<SLOAD>>

\* MSTORE8 of byte b at off, then op (RETURN or REVERT) of [off2, off2+size).
HaltSeq(op, off, size) == Push1(size) \o Push1(off) \o <<op>>

Mstore8Seq(off, b) == Push1(b) \o Push1(off) \o <<MSTORE8>>

\* A byte with no entry in the opcode table.
UNASSIGNED == CHOOSE b \in 0 .. 255 : b \notin OPCODE_TABLE

ChildPrograms ==
    { <<>>,
      <<STOP>>,
      Push1(1),
      StoreSeq(0, 9) \o <<STOP>>,
      StoreSeq(0, 9) \o HaltSeq(REVERT, 0, 0),
      StoreSeq(0, 9) \o <<UNASSIGNED>>,
      Mstore8Seq(0, 42) \o HaltSeq(RETURN, 0, 1),
      Mstore8Seq(1, 42) \o HaltSeq(RETURN, 0, 2),
      Mstore8Seq(0, 42) \o HaltSeq(REVERT, 0, 1),
      <<UNASSIGNED>>,
      <<INVALID>>,
      Push1(0) \o <<JUMP, STOP>> }

\* The operands of a sub-call, pushed so that gas is on top.
CallSeq(op, to, value, args_size, ret_offset, ret_size) ==
    Push1(ret_size) \o Push1(ret_offset) \o Push1(args_size) \o Push1(0)
        \o (IF op = CALL THEN Push1(value) ELSE <<>>)
        \o Push1(to) \o Push1(0) \o <<op>>

\* An optional SSTORE, a sub-call to CALLEE, and an SLOAD of the slot.
CallPrograms ==
    { pre \o CallSeq(c[1], CALLEE, c[2], as, 1, rs) \o LoadSeq(0) :
        pre \in {<<>>, StoreSeq(0, 7)},
        c \in {<<CALL, 0>>, <<CALL, 1>>, <<CALLCODE, 0>>,
               <<DELEGATECALL, 0>>, <<STATICCALL, 0>>},
        as \in {0, 1},
        rs \in {0, 1, 2} }

\* PUSH1 t, JUMP and three more bytes.
JumpPrograms ==
    { Push1(t) \o <<JUMP, x, y, z>> :
        t \in 2 .. 6, x \in {JUMPDEST, STOP}, y \in {JUMPDEST, STOP},
        z \in {JUMPDEST, STOP} }

\* A condition, a target, JUMPI and two more bytes.
JumpiPrograms ==
    { Push1(c) \o Push1(t) \o <<JUMPI, x, y>> :
        c \in {0, 1, 2}, t \in 4 .. 7, x \in {JUMPDEST, STOP},
        y \in {JUMPDEST, STOP} }

ArithWords == {0, 1, 2, 128, 255}

\* b, then a on top of it, and ADD, MUL or SUB; or the operator on one word.
ArithPrograms ==
    { Push1(b) \o Push1(a) \o <<op>> :
        a \in ArithWords, b \in ArithWords, op \in {ADD, MUL, SUB} }
        \cup { Push1(1) \o <<op>> : op \in {ADD, MUL, SUB} }

AluWords == {0, 1, 3, 6, 31, 32, 129, 255}

\* b, then a on top of it, and a division, BYTE or a shift; or a value
\* shifted left and then right by the same amount.
AluPrograms ==
    { Push1(b) \o Push1(a) \o <<op>> :
        a \in AluWords, b \in AluWords,
        op \in {DIV, SDIV, MOD, SMOD, BYTE, SHL, SHR} }
        \cup { Push1(x) \o Push1(n) \o <<SHL>> \o Push1(n) \o <<SHR>> :
                x \in AluWords, n \in {0, 1, 3} }

\* The call data given to run(): none, some bytes, more than a word.
CallDatas == {<<>>, <<1>>, <<1, 2>>, [i \in 1 .. WordBytes + 1 |-> i]}

CallDataLoadPrograms ==
    { Push1(off) \o <<CALLDATALOAD>> : off \in {0, 1, 2, 3, 32, 33, 40, 255} }

\* The operands of a copy, pushed so that the destination is on top.
CopySeq(op, dst, src, len) ==
    Push1(len) \o Push1(src) \o Push1(dst) \o <<op>>

\* A copy out of the call data or the code, into fresh memory or into
\* memory that holds a byte already.
CopyPrograms ==
    { pre \o CopySeq(op, dst, src, len) :
        pre \in {<<>>, Mstore8Seq(1, 42)},
        op \in {CALLDATACOPY, CODECOPY},
        dst \in {0, 1}, src \in {0, 1, 2, 6, 40}, len \in {0, 1, 2} }

\* A copy out of the code of CALLEE or of an account that does not exist.
ExtCopyPrograms ==
    { pre \o Push1(len) \o Push1(src) \o Push1(dst) \o Push1(a)
          \o <<EXTCODECOPY>> :
        pre \in {<<>>, Mstore8Seq(1, 42)}, a \in {CALLEE, 9},
        dst \in {0, 1}, src \in {0, 1, 2, 40}, len \in {0, 1, 2, 3} }

\* A copy out of the data a sub-call returned.
ReturnCopyPrograms ==
    { CallSeq(CALL, CALLEE, 0, 0, 0, 0) \o CopySeq(RETURNDATACOPY, dst, src, len) :
        dst \in {0, 1}, src \in {0, 1, 2, 40}, len \in {0, 1, 2} }

\* n topics (n, ..., 1 from the bottom, so that topic 1 is popped first),
\* the size and the offset, and LOGn.
RECURSIVE TopicSeq(_)
TopicSeq(n) == IF n = 0 THEN <<>> ELSE Push1(n) \o TopicSeq(n - 1)

LogSeq(n, off, size) ==
    TopicSeq(n) \o Push1(size) \o Push1(off) \o <<LOG0 + n>>

\* One LOGn of a byte stored before, two logs in a row, and a log after a
\* sub-call to a callee that logs.
LogPrograms ==
    { Mstore8Seq(0, 42) \o LogSeq(n, 0, size) : n \in 0 .. 4, size \in {0, 1, 2} }
        \cup { LogSeq(1, 0, 1) \o LogSeq(0, 0, 0),
               CallSeq(CALL, CALLEE, 0, 0, 0, 0) \o LogSeq(1, 0, 1) }

\* TSTORE of a value, and TLOAD of the same key or of another.
TransientPrograms ==
    { Push1(v) \o Push1(k) \o <<TSTORE>> \o Push1(k2) \o <<TLOAD>> :
        v \in {0, 7}, k \in {0, 1}, k2 \in {0, 1} }
        \cup { Push1(0) \o <<TLOAD>>, <<TLOAD>>, Push1(0) \o <<TSTORE>> }

\* A callee that calls LEAF and then fails (no such opcode, a JUMP to a
\* byte that is no JUMPDEST, REVERT with a byte of its memory) or stops.
NestedChildPrograms ==
    { CallSeq(CALL, LEAF, 0, 0, 0, 0) \o tail :
        tail \in { <<UNASSIGNED>>, Push1(0) \o <<JUMP, STOP>>,
                   Mstore8Seq(0, 7) \o HaltSeq(REVERT, 0, 1), <<STOP>> } }

\* What LEAF does: return a byte, or nothing, or store a word and fail.
LeafPrograms ==
    { Mstore8Seq(0, 42) \o HaltSeq(RETURN, 0, 1), <<STOP>>,
      StoreSeq(0, 9) \o <<UNASSIGNED>>, StoreSeq(0, 9) \o HaltSeq(REVERT, 0, 0) }

\* The operands of CREATE and CREATE2, pushed so that the value is on top.
CreateSeq(op, value, size) ==
    (IF op = CREATE2 THEN Push1(1) ELSE <<>>)
        \o Push1(size) \o Push1(0) \o Push1(value) \o <<op>>

\* An optional sub-call, the first byte of the init code stored in memory,
\* and a CREATE or CREATE2 of that init code.
CreatePrograms ==
    { pre \o Mstore8Seq(0, b) \o CreateSeq(op, value, size) \o Push1(1) :
        pre \in {<<>>, CallSeq(CALL, CALLEE, 0, 0, 0, 0)},
        b \in {STOP, UNASSIGNED, INVALID, JUMPDEST},
        op \in {CREATE, CREATE2}, value \in {0, 1}, size \in {0, 1, 2} }

\* Init code: it returns a byte as the code to install, stops, runs off its
\* end, or ends in error (REVERT, no such opcode, a JUMP to a byte that is
\* no JUMPDEST), with or without an SSTORE before.
InitCodes ==
    { Mstore8Seq(0, 42) \o HaltSeq(RETURN, 0, 1),
      HaltSeq(RETURN, 0, 2),
      <<STOP>>,
      <<JUMPDEST>>,
      HaltSeq(REVERT, 0, 0),
      <<UNASSIGNED>>,
      StoreSeq(0, 9) \o <<UNASSIGNED>>,
      Push1(0) \o <<JUMP, STOP>> }

\* The init code is copied out of the call data into memory and created
\* with CREATE or CREATE2; the program goes on with a PUSH1.
DeployProgram(op, value, size) ==
    CopySeq(CALLDATACOPY, 0, 0, size) \o CreateSeq(op, value, size) \o Push1(1)

\* PUSH2 with two, one or no operand bytes, and what follows.
Push2Programs ==
    { <<PUSH2>> \o operand \o tail :
        operand \in {<<1, 2>>, <<0, 255>>, <<1>>, <<>>},
        tail \in {<<>>, <<STOP>>, <<JUMPDEST, JUMPDEST>>} }

\* Frames that end at once, one for each way a frame can end.
EndPrograms ==
    { <<>>, <<STOP>>, <<INVALID>>, <<UNASSIGNED>>, <<JUMPDEST>>,
      HaltSeq(RETURN, 0, 1), HaltSeq(REVERT, 0, 1) }

\* The StateDB the embedder built before run(): the sender's balance, the
\* two contracts' code, committed or still in the overlay (as main.rs does).
SetupDB(prog, child, bal, committed) ==
    LET d == set_code(set_code(add_balance(InMemoryStateDB_new, SENDER, bal),
                               ROOT, prog),
                      CALLEE, child)
    IN  IF committed THEN commit(d) ELSE d

InitVM(prog, child, bal, committed) ==
    /\ state = SetupDB(prog, child, bal, committed)
    /\ frames = <<run_ctx(state, SENDER, SENDER, ROOT, <<>>, 0)>>
    /\ conts = <<>>
    /\ status = "run"
    /\ result = "none"
    /\ ev = NoEv
    /\ dbcalls = [prepare |-> 0, commit |-> 0]
    /\ sstores = NoStores

\* run() with call data and a value.
InitRun(prog, child, args, value) ==
    /\ state = SetupDB(prog, child, 0, TRUE)
    /\ frames = <<run_ctx(state, SENDER, SENDER, ROOT, args, value)>>
    /\ conts = <<>>
    /\ status = "run"
    /\ result = "none"
    /\ ev = NoEv
    /\ dbcalls = [prepare |-> 0, commit |-> 0]
    /\ sstores = NoStores

\* run() on a root that holds the balance bal, with the init code as the
\* call data.
InitDeploy(prog, init, bal) ==
    /\ state = commit(add_balance(set_code(InMemoryStateDB_new, ROOT, prog),
                                  ROOT, bal))
    /\ frames = <<run_ctx(state, SENDER, SENDER, ROOT, init, 0)>>
    /\ conts = <<>>
    /\ status = "run"
    /\ result = "none"
    /\ ev = NoEv
    /\ dbcalls = [prepare |-> 0, commit |-> 0]
    /\ sstores = NoStores

\* run() on a root that calls CALLEE, which calls LEAF.
InitNested(prog, child, leaf) ==
    /\ state = commit(set_code(SetupDB(prog, child, 0, FALSE), LEAF, leaf))
    /\ frames = <<run_ctx(state, SENDER, SENDER, ROOT, <<>>, 0)>>
    /\ conts = <<>>
    /\ status = "run"
    /\ result = "none"
    /\ ev = NoEv
    /\ dbcalls = [prepare |-> 0, commit |-> 0]
    /\ sstores = NoStores

Init ==
    /\ nops = 0
    /\ lastOp = NoOp
    /\ pend = [x \in Keys |-> NoVal]
    /\ comm = [x \in Keys |-> 0]
    /\ tpend = [x \in Keys |-> 0]
    /\ dropped = {}
    /\ snapObjs = EmptyMap
    /\ cleanSince = FALSE
    /\ LibIdle
    /\ \/ \E prog \in CallPrograms, child \in ChildPrograms,
             bal \in {0, 1}, committed \in BOOLEAN :
                InitVM(prog, child, bal, committed)
       \/ \E prog \in JumpPrograms \cup JumpiPrograms \cup ArithPrograms
                            \cup AluPrograms \cup EndPrograms
                            \cup Push2Programs :
                InitVM(prog, <<STOP>>, 0, TRUE)
       \/ \E prog \in CallDataLoadPrograms \cup CopyPrograms,
             args \in CallDatas :
                InitRun(prog, <<STOP>>, args, 0)
       \/ \E prog \in ExtCopyPrograms :
                InitRun(prog, <<JUMPDEST, JUMPDEST>>, <<>>, 0)
       \/ \E prog \in LogPrograms \cup TransientPrograms :
                InitRun(prog, LogSeq(0, 0, 1), <<>>, 0)
       \/ \E prog \in CreatePrograms :
                InitRun(prog, Mstore8Seq(0, 42) \o HaltSeq(RETURN, 0, 1), <<>>, 0)
       \/ \E op \in {CREATE, CREATE2}, value \in {0, 1}, init \in InitCodes,
             bal \in {0, 1} :
                InitDeploy(DeployProgram(op, value, Len(init)), init, bal)
       \/ \E c \in {CALL, DELEGATECALL, CALLCODE, STATICCALL},
             child \in NestedChildPrograms, leaf \in LeafPrograms :
                InitNested(CallSeq(c, CALLEE, 0, 0, 0, 0) \o <<STOP>>, child, leaf)
       \/ \E prog \in ReturnCopyPrograms,
             child \in {<<STOP>>, Mstore8Seq(0, 42) \o HaltSeq(RETURN, 0, 1),
                        Mstore8Seq(1, 42) \o HaltSeq(RETURN, 0, 2)} :
                InitRun(prog, child, <<>>, 0)

Next ==
    \/ FetchPanic
    \/ InvalidOpcode
    \/ Op_STOP
    \/ Op_PUSH1
    \/ Op_PUSH2
    \/ Op_JUMPDEST
    \/ Op_MSTORE8
    \/ Op_SLOAD
    \/ Op_SSTORE
    \/ Op_JUMP
    \/ Op_JUMPI
    \/ Op_INVALID
    \/ Op_ADD
    \/ Op_MUL
    \/ Op_SUB
    \/ Op_DIV
    \/ Op_SDIV
    \/ Op_MOD
    \/ Op_SMOD
    \/ Op_BYTE
    \/ Op_SHL
    \/ Op_SHR
    \/ Op_CALLDATALOAD
    \/ Op_CALLDATACOPY
    \/ Op_CODECOPY
    \/ Op_EXTCODECOPY
    \/ Op_RETURNDATACOPY
    \/ Op_LOG
    \/ Op_TLOAD
    \/ Op_TSTORE
    \/ Op_RETURN
    \/ Op_REVERT
    \/ Op_CALL
    \/ Op_DELEGATECALL
    \/ Op_CALLCODE
    \/ Op_STATICCALL
    \/ Op_CREATE
    \/ Op_CREATE2
    \/ CallReturn
    \/ CreateReturn
    \/ RunReturn

Spec == Init /\ [][Next]_vars

\* ------------------------------------------------------------------------
\* Claims about the StateDB
\* ------------------------------------------------------------------------

\* C1: get_state(a,k) returns the value of the last set_state(a,k,v) made
\* since the last prepare(); when there is none (the write was discarded by
\* prepare(), or folded by commit()) it returns the value last committed for
\* (a,k), zero if none was ever committed.
C1_GetStateOverlay ==
    \A x \in Keys :
        get_state(state, x[1], x[2]) =
            IF pend[x] # NoVal THEN pend[x] ELSE comm[x]

\* A write to a key was discarded by prepare() and the read gives the other,
\* earlier committed value.
C1_Witness ==
    \E x \in dropped :
        /\ lastOp.op = "prepare"
        /\ comm[x] # 0
        /\ get_state(state, x[1], x[2]) = comm[x]

\* C4: commit() folds both overlays into the committed maps and leaves them
\* empty; prepare() leaves both overlays empty and changes no committed
\* entry, so a committed value is read back after every later prepare().
C4_CommitFoldsPrepareClears ==
    [][ /\ lastOp'.op = "prepare" =>
            /\ state'.dirty_storage = EmptyMap
            /\ state'.dirty_objects = EmptyMap
            /\ state'.storage = state.storage
            /\ state'.objects = state.objects
            /\ \A x \in Keys : get_state(state', x[1], x[2]) = comm[x]
        /\ lastOp'.op = "commit" =>
            /\ state'.dirty_storage = EmptyMap
            /\ state'.dirty_objects = EmptyMap
            /\ DOMAIN state'.storage =
                    (DOMAIN state.storage) \cup (DOMAIN state.dirty_storage)
            /\ DOMAIN state'.objects =
                    (DOMAIN state.objects) \cup (DOMAIN state.dirty_objects)
            /\ \A x \in DOMAIN state'.storage :
                    state'.storage[x] = get_state(state, x[1], x[2])
            /\ \A a \in DOMAIN state'.objects :
                    state'.objects[a] = get_object(state, a)
      ]_vars

\* A prepare() found pending writes and pending accounts to drop while the
\* committed maps held entries.
C4_Witness ==
    /\ lastOp.op = "prepare"
    /\ dropped # {}
    /\ DOMAIN state.storage # {}
    /\ DOMAIN state.objects # {}

\* C6: a transient value is returned by get_transition_state until the next
\* prepare(), whatever commit() calls come in between.
C6_TransientSurvivesCommit ==
    \A x \in Keys : get_transition_state(state, x[1], x[2]) = tpend[x]

RECURSIVE SumBalances(_, _)
SumBalances(db, as) ==
    IF as = {} THEN 0
    ELSE LET a == CHOOSE y \in as : TRUE
         IN  get_balance(db, a) + SumBalances(db, as \ {a})

\* C2: prepare -> sub_balance / add_balance / set_nonce / set_code ->
\* prepare, with no commit, leaves every account that was in the committed
\* map at the first prepare with the balance, nonce and code it had there.
C2_RollbackOfAccounts ==
    [][ (lastOp'.op = "prepare" /\ cleanSince) =>
            \A a \in DOMAIN snapObjs :
                /\ get_balance(state', a) = snapObjs[a].balance
                /\ get_nonce(state', a) = snapObjs[a].nonce
                /\ get_code(state', a) = snapObjs[a].code
      ]_vars

\* The parts of C5 that hold as stated: when transfer succeeds, and what a
\* failed transfer leaves.
TransferOutcome(db, db2, op) ==
    /\ op.ok <=> (get_balance(db, op.a) >= op.v)
    /\ ~op.ok =>
            \A a \in Addrs :
                /\ get_balance(db2, a) = get_balance(db, a)
                /\ exists(db2, a) <=> exists(db, a)
    /\ op.ok =>
            /\ \A a \in Addrs \ {op.a, op.b} :
                    get_balance(db2, a) = get_balance(db, a)
            /\ op.a = op.b => get_balance(db2, op.a) = get_balance(db, op.a)
            /\ op.a # op.b =>
                    get_balance(db2, op.a) = get_balance(db, op.a) - op.v

\* C5 as claimed: a successful transfer increases the balance of to by v and
\* leaves the sum of all balances unchanged.
C5_TransferAtomic_Original ==
    [][ lastOp'.op = "transfer" =>
            /\ TransferOutcome(state, state', lastOp')
            /\ (lastOp'.ok /\ lastOp'.a # lastOp'.b) =>
                    get_balance(state', lastOp'.b) =
                        get_balance(state, lastOp'.b) + lastOp'.v
            /\ lastOp'.ok =>
                    SumBalances(state', Addrs) = SumBalances(state, Addrs)
      ]_vars

\* C5 amended: the credit is modulo 2^WordBits; the balance of to grows by v
\* and the sum is unchanged whenever balance(to) + v does not exceed the
\* largest Word.
C5_TransferAtomic ==
    [][ lastOp'.op = "transfer" =>
            /\ TransferOutcome(state, state', lastOp')
            /\ (lastOp'.ok /\ lastOp'.a # lastOp'.b) =>
                    get_balance(state', lastOp'.b) =
                        (get_balance(state, lastOp'.b) + lastOp'.v) % WordMod
            /\ (lastOp'.ok /\ (lastOp'.a = lastOp'.b
                               \/ get_balance(state, lastOp'.b) + lastOp'.v < WordMod)) =>
                    SumBalances(state', Addrs) = SumBalances(state, Addrs)
      ]_vars

\* A successful transfer between two accounts whose credit wrapped around.
C5_Witness ==
    /\ lastOp.op = "transfer"
    /\ lastOp.ok
    /\ lastOp.a # lastOp.b
    /\ lastOp.v > 0
    /\ get_balance(state, lastOp.b) < lastOp.v

\* ------------------------------------------------------------------------
\* Claims about the interpreter
\* ------------------------------------------------------------------------

\* The frame a sub-call handler is suspended in, while its child is on top.
Parent == frames[Len(frames) - 1]

\* C3: when the child of a CALL ends in error, every slot of the parent's
\* contract reads, after the CALL, the value it read right before the CALL.
C3_FailedCallRollsBack ==
    (ev.kind = "callret" /\ ev.op = CALL /\ ev.res # "Ok" /\ status # "panic") =>
        \A k \in VMSlots : get_state(state, Top.contract, k) = ev.before[k]

\* C7: when the child of CALL, CALLCODE, DELEGATECALL or STATICCALL has
\* ended, the handler pushes exactly 1 (child returned Ok: STOP, RETURN, end
\* of code) or exactly 0 (any error) on the parent's stack and the parent
\* goes on at the instruction after the call.
C7_CallPushesOneOrZero ==
    [][ ev'.kind = "callret" =>
            /\ status' # "panic"
            /\ Len(frames') = Len(frames) - 1
            /\ frames'[Len(frames')].stack =
                    Append(Parent.stack, IF ev'.res = "Ok" THEN 1 ELSE 0)
            /\ frames'[Len(frames')].pc = Parent.pc + 1
      ]_vars

\* C8: after a CALL, the parent's memory holds the child's return data R at
\* retOff, truncated to retSize or zero-padded up to it, and the parent's
\* returnData is R.
C8_ReturnDataSpliced ==
    [][ (ev'.kind = "callret" /\ ev'.op = CALL) =>
            /\ status' # "panic"
            /\ LET m == frames'[Len(frames')].memory
                   R == ev'.R
               IN  /\ Len(m) >= ev'.ret_offset + ev'.ret_size
                   /\ \A i \in 0 .. ev'.ret_size - 1 :
                        m[ev'.ret_offset + i + 1] =
                            IF i < Len(R) THEN R[i + 1] ELSE 0
                   /\ frames'[Len(frames')].return_data = R
      ]_vars

\* What C9 says of a CALL with value whose transfer fails, the memory
\* apart: 0 is pushed, the handler returns Ok and the parent goes on, no
\* child frame, no prepare() and no commit(), returnData and the StateDB
\* (so every balance) unchanged.
CallFailsCleanly ==
    /\ status' \in {"run", "ret"}
    /\ status' = "ret" => result' = "Ok"
    /\ Len(frames') = Len(frames)
    /\ conts' = conts
    /\ dbcalls' = dbcalls
    /\ state' = state
    /\ frames'[Len(frames')].stack = Append(pop_n(Top.stack, 7), 0)
    /\ frames'[Len(frames')].pc = Top.pc + 1
    /\ frames'[Len(frames')].return_data = Top.return_data

CallWithFailingTransfer ==
    /\ ev'.kind = "call"
    /\ ev'.op = CALL
    /\ ev'.value # 0
    /\ get_balance(state, Top.caller) < ev'.value

\* C9 as claimed: the parent's memory is unchanged as well.
C9_InsufficientBalance_Original ==
    [][ CallWithFailingTransfer =>
            /\ CallFailsCleanly
            /\ frames'[Len(frames')].memory = Top.memory
      ]_vars

\* C9 amended: the parent's memory keeps its bytes and is zero-extended to
\* argsOff + argsSize when argsSize > 0 (the call data was read already).
C9_InsufficientBalance ==
    [][ CallWithFailingTransfer =>
            /\ CallFailsCleanly
            /\ LET m == frames'[Len(frames')].memory
                   want == IF ev'.args_size > 0
                              /\ ev'.args_offset + ev'.args_size > Len(Top.memory)
                           THEN ev'.args_offset + ev'.args_size
                           ELSE Len(Top.memory)
               IN  /\ Len(m) = want
                   /\ \A i \in 1 .. Len(m) :
                        m[i] = IF i <= Len(Top.memory) THEN Top.memory[i] ELSE 0
      ]_vars

\* A CALL with value 1 out of a sender with no balance has pushed 0, with no
\* child frame, and its call-data read has grown the parent's memory.
C9_Witness ==
    /\ ev.kind = "call"
    /\ ev.op = CALL
    /\ ev.value = 1
    /\ conts = <<>>
    /\ Len(frames) = 1
    /\ Top.stack = <<0>>
    /\ Top.memory = <<0>>
    /\ dbcalls = [prepare |-> 0, commit |-> 0]

\* C10: JUMP to t goes on if and only if code[t] is JUMPDEST, and ends the
\* frame with InvalidJumpDestination otherwise.
C10_JumpNeedsJumpdest ==
    [][ ev'.kind = "jump" =>
            LET isDest == /\ ev'.t < Len(Top.code)
                          /\ Top.code[ev'.t + 1] = JUMPDEST
            IN  /\ isDest <=> status' = "run"
                /\ ~isDest => (status' = "ret" /\ result' = "InvalidJumpDestination")
      ]_vars

\* ------------------------------------------------------------------------
\* Claims about the Stack
\* ------------------------------------------------------------------------

\* The Stack call made last, and the one before it.
LastStackCall == shist[Len(shist)]

PrevStackCall == shist[Len(shist) - 1]

\* C13: the stack never holds more than 1024 words (a push on a stack of
\* 1024 is fatal and leaves no stack of 1025), and a pop on an empty stack
\* is fatal.
C13_StackBounded ==
    /\ Len(stk) <= STACK_CAPACITY
    /\ \A i \in 1 .. Len(shist) :
        /\ (shist[i].op = "push" /\ Len(shist[i].before) = STACK_CAPACITY)
                => ~shist[i].ok
        /\ (shist[i].op = "pop" /\ shist[i].before = <<>>) => ~shist[i].ok

\* C14: push(v) then pop() returns v and leaves the stack it started from;
\* dup(n) with 1 <= n <= len pushes a copy of the n-th word from the top,
\* and a pop() after it leaves the stack dup started from.
C14_PushPopDupRoundTrip ==
    /\ (Len(shist) >= 1 /\ LastStackCall.op = "dup"
            /\ LastStackCall.arg \in 1 .. Len(LastStackCall.before)) =>
        LET s == LastStackCall.before
        IN  /\ LastStackCall.ok
            /\ stk = Append(s, s[Len(s) - LastStackCall.arg + 1])
    /\ (Len(shist) >= 2 /\ LastStackCall.op = "pop"
            /\ PrevStackCall.op = "push") =>
        /\ LastStackCall.ok
        /\ LastStackCall.ret = PrevStackCall.arg
        /\ stk = PrevStackCall.before
    /\ (Len(shist) >= 2 /\ LastStackCall.op = "pop"
            /\ PrevStackCall.op = "dup"
            /\ PrevStackCall.arg \in 1 .. Len(PrevStackCall.before)) =>
        /\ LastStackCall.ok
        /\ stk = PrevStackCall.before

\* A dup(2) of a stack of two different words, popped again.
C14_Witness ==
    /\ Len(shist) >= 2
    /\ LastStackCall.op = "pop"
    /\ PrevStackCall.op = "dup"
    /\ PrevStackCall.arg = 2
    /\ Len(stk) = 2
    /\ stk[1] # stk[2]
    /\ LastStackCall.ret = stk[1]

\* The stack s with its top and its (n+1)-th word from the top exchanged.
Exchanged(s, n) ==
    [i \in 1 .. Len(s) |->
        IF i = Len(s) THEN s[Len(s) - n]
        ELSE IF i = Len(s) - n THEN s[Len(s)]
        ELSE s[i]]

\* C15: swap(n) with 1 <= n < len exchanges the top with the (n+1)-th word
\* from the top and leaves the rest and the length as they were; a second
\* swap(n) gives the original stack back.
C15_SwapExchanges ==
    /\ (Len(shist) >= 1 /\ LastStackCall.op = "swap"
            /\ LastStackCall.arg >= 1
            /\ LastStackCall.arg < Len(LastStackCall.before)) =>
        /\ LastStackCall.ok
        /\ stk = Exchanged(LastStackCall.before, LastStackCall.arg)
    /\ (Len(shist) >= 2 /\ LastStackCall.op = "swap"
            /\ PrevStackCall.op = "swap"
            /\ LastStackCall.arg = PrevStackCall.arg
            /\ LastStackCall.arg >= 1
            /\ LastStackCall.arg < Len(PrevStackCall.before)) =>
        stk = PrevStackCall.before

\* swap(2) made twice on a stack of three words whose top and bottom differ.
C15_Witness ==
    /\ Len(shist) >= 2
    /\ LastStackCall.op = "swap"
    /\ PrevStackCall.op = "swap"
    /\ LastStackCall.arg = 2
    /\ PrevStackCall.arg = 2
    /\ Len(stk) = 3
    /\ stk[1] # stk[3]
    /\ stk = PrevStackCall.before

\* ------------------------------------------------------------------------
\* Claims about the Memory
\* ------------------------------------------------------------------------

LastMemCall == mhist[Len(mhist)]

\* The reads and writes of a span: read, read32, write, write8, write32.
PlainAccess == {"read", "read32", "write", "write8", "write32"}

\* The buffer m after the call c is at least c.off + c.size long, holds
\* zero in every byte it did not have before and the call did not write, and
\* holds what it held in every other byte the call did not write; a read of
\* a fresh memory returned c.size zero bytes.
GrownAndZeroFilled(c, m) ==
    /\ c.ok
    /\ Len(m) >= c.off + c.size
    /\ \A i \in 1 .. Len(m) :
        \/ c.op \in {"write", "write8", "write32"}
                /\ i > c.off /\ i <= c.off + c.size
        \/ m[i] = IF i <= Len(c.before) THEN c.before[i] ELSE 0
    /\ \A i \in 1 .. Len(c.before) : i <= Len(m)
    /\ (c.op = "read" /\ c.before = <<>>) => c.ret = Zeros(c.size)

\* C18 as claimed: for every off and len, a read or write of
\* [off, off+len) leaves the buffer at least off+len long, its new bytes
\* zero and its old bytes as they were.
C18_MemoryGrowth_Original ==
    (Len(mhist) >= 1 /\ LastMemCall.op \in PlainAccess) =>
        GrownAndZeroFilled(LastMemCall, mem)

\* C18 amended: that holds for len >= 1 (with off+len within usize); a read
\* or write of length 0 returns and leaves the buffer as it was.
C18_MemoryGrowth ==
    /\ (Len(mhist) >= 1 /\ LastMemCall.op \in PlainAccess
            /\ LastMemCall.size >= 1
            /\ LastMemCall.off + LastMemCall.size <= UsizeMax) =>
        GrownAndZeroFilled(LastMemCall, mem)
    /\ (Len(mhist) >= 1 /\ LastMemCall.op \in PlainAccess
            /\ LastMemCall.size = 0) =>
        /\ LastMemCall.ok
        /\ mem = LastMemCall.before
        /\ LastMemCall.ret = <<>>

\* A read of two bytes at offset 3 of a buffer of two bytes has grown it to
\* five bytes and returned two zeros.
C18_Witness ==
    /\ Len(mhist) >= 1
    /\ LastMemCall.op = "read"
    /\ LastMemCall.off = 3
    /\ LastMemCall.size = 2
    /\ Len(LastMemCall.before) = 2
    /\ Len(mem) = 5
    /\ LastMemCall.ret = <<0, 0>>

\* C19: copy(dst, src, len) leaves in memory[dst+i] what memory[src+i] held
\* before, for every i < len, and every byte outside [dst, dst+len) as it
\* was, apart from the zero extension.
C19_CopyReadThenWrite ==
    (Len(mhist) >= 1 /\ LastMemCall.op = "copy"
        /\ Max(LastMemCall.off[1], LastMemCall.off[2]) + LastMemCall.size
                <= UsizeMax) =>
        LET dst == LastMemCall.off[1]
            src == LastMemCall.off[2]
            size == LastMemCall.size
            old == LastMemCall.before
            grown == old \o Zeros(Max(src, dst) + size - Len(old))
        IN  /\ LastMemCall.ok
            /\ Len(mem) = Len(grown)
            /\ \A i \in 1 .. Len(mem) :
                mem[i] = IF i > dst /\ i <= dst + size
                         THEN grown[src + (i - dst)]
                         ELSE grown[i]

\* ------------------------------------------------------------------------
\* Claims about the Assembler
\* ------------------------------------------------------------------------

\* The number of bytes PUSHk takes, for a PUSH mnemonic of the table.
PushWidth(m) == opcode_table[m] - PUSH1 + 1

IsPush(m) ==
    /\ m \in DOMAIN opcode_table
    /\ opcode_table[m] >= PUSH1
    /\ opcode_table[m] <= PUSH32

IsHex(o) == \A i \in 1 .. Len(o.digits) : o.digits[i] < NotHex

\* The value the hexadecimal digits of an operand spell.
RECURSIVE HexValue(_)
HexValue(ds) ==
    IF ds = <<>> THEN 0 ELSE 16 * HexValue(SubSeq(ds, 1, Len(ds) - 1)) + ds[Len(ds)]

\* The k bytes that spell X big-endian, zeros on the left.
RECURSIVE Padded(_, _)
Padded(X, k) == IF k = 0 THEN <<>> ELSE Append(Padded(X \div 256, k - 1), X % 256)

\* C16: the line PUSHk X, with X representable in k bytes, assembles to the
\* PUSHk opcode followed by the k big-endian bytes of X, zeros on the left.
C16_PushRoundTrip ==
    (asmOut # NoAsm /\ Len(asmIn) = 1 /\ Len(asmIn[1]) = 2
        /\ IsPush(asmIn[1][1]) /\ IsHex(asmIn[1][2])
        /\ HexValue(asmIn[1][2].digits) < 256 ^ PushWidth(asmIn[1][1])) =>
        asmOut = AsmOk(<<opcode_table[asmIn[1][1]]>>
                        \o Padded(HexValue(asmIn[1][2].digits),
                                  PushWidth(asmIn[1][1])))

\* A line asm must reject: unknown mnemonic, PUSHk without operand, with an
\* operand that is not hexadecimal, or with one that needs more than k bytes.
Rejected(line) ==
    /\ line # <<>>
    /\ \/ line[1] \notin DOMAIN opcode_table
       \/ /\ IsPush(line[1])
          /\ \/ Len(line) < 2
             \/ ~IsHex(line[2])
             \/ HexValue(line[2].digits) >= 256 ^ PushWidth(line[1])

\* The bytes a line contributes: none for a blank line.
LineSize(line) ==
    IF line = <<>> THEN 0
    ELSE IF IsPush(line[1]) THEN 1 + PushWidth(line[1]) ELSE 1

RECURSIVE TextSize(_)
TextSize(lines) ==
    IF lines = <<>> THEN 0 ELSE LineSize(lines[1]) + TextSize(Tail(lines))

\* C17: asm returns InvalidAsmToken carrying the first line it must reject,
\* and no bytes; when it returns bytes, the blank lines have contributed
\* none.
C17_AsmErrors ==
    asmOut # NoAsm =>
        IF \E i \in 1 .. Len(asmIn) : Rejected(asmIn[i])
        THEN LET i == CHOOSE j \in 1 .. Len(asmIn) :
                        /\ Rejected(asmIn[j])
                        /\ \A h \in 1 .. j - 1 : ~Rejected(asmIn[h])
             IN  asmOut = AsmErr(asmIn[i])
        ELSE asmOut.res = "ok" => Len(asmOut.bytes) = TextSize(asmIn)

\* ------------------------------------------------------------------------
\* Claims about JUMPI, the ends of a frame and the arithmetic
\* ------------------------------------------------------------------------

\* The byte at index t of the running frame's code is a JUMPDEST.
IsJumpdest(t) == t < Len(Top.code) /\ Top.code[t + 1] = JUMPDEST

\* C11: JUMPI with condition 0 falls through to the next instruction; with
\* a condition other than 0 it jumps as JUMP does, and a target that is not
\* a JUMPDEST ends the frame with InvalidJumpDestination.
C11_JumpiChecksTarget ==
    [][ ev'.kind = "jumpi" =>
            /\ ev'.c = 0 =>
                    /\ status' \in {"run", "ret"}
                    /\ status' = "ret" => result' = "Ok"
                    /\ frames'[Len(frames')].pc = Top.pc + 1
            /\ (ev'.c # 0 /\ IsJumpdest(ev'.t)) => status' = "run"
            /\ (ev'.c # 0 /\ ~IsJumpdest(ev'.t)) =>
                    (status' = "ret" /\ result' = "InvalidJumpDestination")
      ]_vars

\* The step ends the running frame: its run_with_ctx returns, or aborts.
FrameEnds == status = "run" /\ status' \in {"ret", "panic"}

\* The frame ended because pc reached or passed the end of its code.
RanOffEnd ==
    /\ ev'.kind \notin {"stop", "return", "revert", "invalid",
                        "invalid_opcode", "underflow", "jump"}
    /\ frames'[Len(frames')].pc >= Len(Top.code)

\* C12: run_with_ctx returns Ok exactly when the frame ends by STOP, by
\* RETURN or by pc reaching the end of the code; Err(Revert) on REVERT;
\* Err(InvalidJumpDestination) on a JUMP to a byte that is no JUMPDEST;
\* Err(InvalidOpcode) on a byte with no table entry, with the frame and the
\* StateDB left as they were.
C12_RunWithCtxResult ==
    [][ /\ FrameEnds =>
            /\ (result' = "Ok") <=> (ev'.kind \in {"stop", "return"} \/ RanOffEnd)
            /\ ev'.kind = "revert" => result' = "Revert"
        /\ (ev'.kind = "jump" /\ ~IsJumpdest(ev'.t)) =>
            (status' = "ret" /\ result' = "InvalidJumpDestination")
        /\ (status = "run" /\ Top.pc < Len(Top.code)
                /\ Top.code[Top.pc + 1] \notin OPCODE_TABLE) =>
            /\ status' = "ret"
            /\ result' = "InvalidOpcode"
            /\ frames' = frames
            /\ state' = state
      ]_vars

\* C20: with a on top and b below it, ADD pushes (a+b) mod 2^256, MUL
\* (a*b) mod 2^256 and SUB (a-b) mod 2^256; each pops two words and pushes
\* one.
C20_AddMulSubWrap ==
    [][ (status = "run" /\ Top.pc < Len(Top.code)
            /\ Top.code[Top.pc + 1] \in {ADD, MUL, SUB}
            /\ Len(Top.stack) >= 2) =>
            LET op == Top.code[Top.pc + 1]
                a == Top.stack[Len(Top.stack)]
                b == Top.stack[Len(Top.stack) - 1]
                rest == SubSeq(Top.stack, 1, Len(Top.stack) - 2)
                r == CASE op = ADD -> (a + b) % WordMod
                       [] op = MUL -> (a * b) % WordMod
                       [] op = SUB -> ((a - b) + WordMod) % WordMod
            IN  /\ status' # "panic"
                /\ frames'[Len(frames')].stack = Append(rest, r)
      ]_vars

\* SUB with 0 on top of 1 has pushed 2^256 - 1.
C20_Witness ==
    /\ ev.kind = "arith"
    /\ ev.op = SUB
    /\ ev.a = 0
    /\ ev.b = 1
    /\ Top.stack = <<WordMax>>

\* ------------------------------------------------------------------------
\* Claims about division, BYTE and the shifts
\* ------------------------------------------------------------------------

\* The running frame is about to execute op with at least n words on its
\* stack.
About(ops, n) ==
    /\ status = "run"
    /\ Top.pc < Len(Top.code)
    /\ Top.code[Top.pc + 1] \in ops
    /\ Len(Top.stack) >= n

\* The handler returned Ok having replaced the two words on top by r.
Replaced2(r) ==
    /\ status' # "panic"
    /\ frames'[Len(frames')].stack =
            Append(SubSeq(Top.stack, 1, Len(Top.stack) - 2), r)

\* C21: DIV, MOD, SDIV and SMOD with divisor 0 (the dividend on top, the
\* divisor below it) push 0 and return success.
C21_DivisionByZero ==
    [][ (About({DIV, MOD, SDIV, SMOD}, 2)
            /\ Top.stack[Len(Top.stack) - 1] = 0) => Replaced2(0)
      ]_vars

\* Byte i of the word x counted from the most significant end.
ByteFromMsb(i, x) == to_be_bytes32(x)[i + 1]

\* C22: BYTE pops i (top) and x and pushes the i-th byte of x counted from
\* the most significant end when i < 32, and zero when i >= 32.
C22_ByteFromMostSignificant ==
    [][ About({BYTE}, 2) =>
            LET i == Top.stack[Len(Top.stack)]
                x == Top.stack[Len(Top.stack) - 1]
            IN  Replaced2(IF i < 32 THEN ByteFromMsb(i, x) ELSE 0)
      ]_vars

\* C23: SHL and SHR pop the shift amount n (top) and the value x; SHL
\* pushes (x * 2^n) mod 2^256 and SHR pushes floor(x / 2^n).
C23_ShiftOperands ==
    [][ About({SHL, SHR}, 2) =>
            LET n == Top.stack[Len(Top.stack)]
                x == Top.stack[Len(Top.stack) - 1]
            IN  Replaced2(IF n >= WordBits THEN 0
                          ELSE IF Top.code[Top.pc + 1] = SHL
                               THEN (x * 2 ^ n) % WordMod
                               ELSE x \div 2 ^ n)
      ]_vars

\* ------------------------------------------------------------------------
\* Claims about the call data, the copies, the logs and transient storage
\* ------------------------------------------------------------------------

\* len bytes of source from index src on, zero past its end.
ZeroPadded(source, src, len) ==
    [i \in 1 .. len |-> IF src + i <= Len(source) THEN source[src + i] ELSE 0]

\* C24: CALLDATALOAD pops off and pushes the word whose i-th byte is
\* callData[off+i] when off+i < |callData| and zero otherwise; it pushes
\* zero, without failing, when off >= |callData| and when callData is empty.
C24_CallDataLoadZeroPadded ==
    [][ About({CALLDATALOAD}, 1) =>
            LET off == Top.stack[Len(Top.stack)]
                bytes == ZeroPadded(Top.call_data, off, WordBytes)
            IN  /\ status' # "panic"
                /\ ev'.loaded = bytes
                /\ frames'[Len(frames')].stack =
                        Append(SubSeq(Top.stack, 1, Len(Top.stack) - 1),
                               from_be_slice(bytes))
      ]_vars

\* The byte of memory at index j, zero where the buffer has not grown to.
MemAt(memory, j) == IF j < Len(memory) THEN memory[j + 1] ELSE 0

\* The source a copy handler reads, k being 1 when the address is on top.
CopySource(op) ==
    CASE op = CALLDATACOPY -> Top.call_data
      [] op = CODECOPY -> Top.code
      [] op = RETURNDATACOPY -> Top.return_data
      [] op = EXTCODECOPY ->
            get_code(state, u256_to_address(Top.stack[Len(Top.stack)]))

\* C25: CALLDATACOPY, CODECOPY, EXTCODECOPY and RETURNDATACOPY pop (dst,
\* src, len) and leave memory[dst+i] = source[src+i] when src+i < |source|
\* and zero otherwise, for every i < len and every src; none fails because
\* the range reaches past the end of the source.
C25_CopiesZeroPadded ==
    [][ (\/ About({CALLDATACOPY, CODECOPY, RETURNDATACOPY}, 3)
         \/ About({EXTCODECOPY}, 4)) =>
            LET op == Top.code[Top.pc + 1]
                k == IF op = EXTCODECOPY THEN 1 ELSE 0
                dst == Top.stack[Len(Top.stack) - k]
                src == Top.stack[Len(Top.stack) - k - 1]
                len == Top.stack[Len(Top.stack) - k - 2]
                bytes == ZeroPadded(CopySource(op), src, len)
            IN  dst + len <= UsizeMax =>
                    /\ status' # "panic"
                    /\ \A i \in 1 .. len :
                        MemAt(frames'[Len(frames')].memory, dst + i - 1) = bytes[i]
      ]_vars

\* C26: LOGn pops offset and size, then n topics, and appends exactly one
\* entry (the frame's contract, the topics in pop order, memory.read(off,
\* size)) to the log of the StateDB.
C26_LogAppendsEntry ==
    [][ (/\ status = "run"
         /\ Top.pc < Len(Top.code)
         /\ Top.code[Top.pc + 1] \in LOG0 .. LOG4
         /\ Len(Top.stack) >= Top.code[Top.pc + 1] - LOG0 + 2) =>
            LET n == Top.code[Top.pc + 1] - LOG0
                off == Top.stack[Len(Top.stack)]
                size == Top.stack[Len(Top.stack) - 1]
                topics == [i \in 1 .. n |-> Top.stack[Len(Top.stack) - 1 - i]]
            IN  /\ status' # "panic"
                /\ frames'[Len(frames')].stack =
                        SubSeq(Top.stack, 1, Len(Top.stack) - n - 2)
                /\ state'.logs =
                        Append(state.logs,
                               <<Top.contract, topics, read(Top.memory, off, size)>>)
      ]_vars

\* C27: a frame that executes INVALID ends with the Revert error, and a
\* sub-call whose child ended by INVALID pushes 0 and does not commit.
C27_InvalidSignalsRevert ==
    [][ /\ About({INVALID}, 0) => (status' = "ret" /\ result' = "Revert")
        /\ (ev.kind = "invalid" /\ ev'.kind = "callret" /\ status' # "panic") =>
            /\ frames'[Len(frames')].stack = Append(Parent.stack, 0)
            /\ dbcalls'.commit = dbcalls.commit
      ]_vars

\* C28: TSTORE pops a key and a value, stores the value in the transient
\* storage of the frame's contract and pushes nothing; TLOAD pops a key and
\* pushes what the transient storage of the contract holds for it, zero
\* for a key never stored.
C28_TransientStoreLoad ==
    [][ /\ About({TSTORE}, 2) =>
            LET key == Top.stack[Len(Top.stack)]
                value == Top.stack[Len(Top.stack) - 1]
            IN  /\ status' # "panic"
                /\ frames'[Len(frames')].stack =
                        SubSeq(Top.stack, 1, Len(Top.stack) - 2)
                /\ get_transition_state(state', Top.contract, key) = value
        /\ About({TLOAD}, 1) =>
            LET key == Top.stack[Len(Top.stack)]
            IN  /\ status' # "panic"
                /\ frames'[Len(frames')].stack =
                        Append(SubSeq(Top.stack, 1, Len(Top.stack) - 1),
                               get_transition_state(state, Top.contract, key))
      ]_vars

\* ------------------------------------------------------------------------
\* Claims about the frames of sub-calls
\* ------------------------------------------------------------------------

\* C29: when the child of a sub-call ended with Revert, the parent's
\* returnData is what the child passed to REVERT; when it ended with
\* InvalidOpcode or InvalidJumpDestination, the parent's returnData is
\* empty, whatever the child had received from a sub-call of its own.
C29_ReturnDataOnFailure ==
    [][ (ev'.kind = "callret" /\ status' # "panic") =>
            /\ result = "Revert" =>
                    frames'[Len(frames')].return_data = Top.return_data
            /\ result \in {"InvalidOpcode", "InvalidJumpDestination"} =>
                    frames'[Len(frames')].return_data = <<>>
      ]_vars

\* What a frame is created with.
FrameFixed(c) ==
    <<c.code, c.call_data, c.caller, c.origin, c.contract, c.value, c.depth>>

\* C30: the code, callData, caller, origin, contract, value and depth of a
\* frame never change between its creation and its end.
C30_FrameFieldsImmutable ==
    [][ \A i \in 1 .. Min(Len(frames), Len(frames')) :
            FrameFixed(frames'[i]) = FrameFixed(frames[i])
      ]_vars

\* The root frame has run a sub-call that returned data and a CREATE that
\* installed code: its stack, memory, pc and returnData have changed.
C30_Witness ==
    /\ ev.kind = "createret"
    /\ ev.res = "Ok"
    /\ Len(frames) = 1
    /\ Top.return_data # <<>>
    /\ Top.memory # <<>>
    /\ Len(Top.stack) = 2
    /\ Top.pc > 0

\* ------------------------------------------------------------------------
\* Claims about CREATE, CREATE2 and STATICCALL
\* ------------------------------------------------------------------------

\* The init code CREATE and CREATE2 read: memory[off, off + size), off and
\* size being the second and the third word popped.
InitCodeOf(ctx) ==
    read(ctx.memory, u256_to_usize(popped(ctx.stack, 2)),
         u256_to_usize(popped(ctx.stack, 3)))

\* C31: CREATE pops (value, off, size) and CREATE2 (value, off, size, salt);
\* the address is create(parent.caller, get_nonce(parent.caller)), or
\* create2(parent.caller, salt, init code); the child runs the init code;
\* when it ends normally its returnData is the code of the address
\* afterwards and the address is pushed on the parent's stack.
C31_CreateInstallsCode ==
    [][ /\ (ev'.kind = "create" /\ Len(frames') > Len(frames)) =>
            /\ frames'[Len(frames')].code = InitCodeOf(Top)
            /\ frames'[Len(frames)].stack =
                    pop_n(Top.stack, IF ev'.op = CREATE2 THEN 4 ELSE 3)
            /\ ev'.addr =
                    IF ev'.op = CREATE2
                    THEN Address_create2(Top.caller, popped(Top.stack, 4),
                                         InitCodeOf(Top))
                    ELSE Address_create(Top.caller, get_nonce(state, Top.caller))
            /\ frames'[Len(frames')].contract = ev'.addr
        /\ (ev'.kind = "createret" /\ ev'.res = "Ok") =>
            /\ get_code(state', ev'.addr) = Top.return_data
            /\ frames'[Len(frames')].stack = push(Parent.stack, ev'.addr)
            /\ Top.contract = ev'.addr
      ]_vars

\* A CREATE with a value has installed the byte its init code returned.
C31_Witness ==
    /\ ev.kind = "createret"
    /\ ev.res = "Ok"
    /\ get_code(state, ev.addr) = <<42>>
    /\ get_balance(state, ev.addr) = 1
    /\ Top.stack = <<ev.addr>>

\* C32: STATICCALL pops 6 words, makes no transfer (its only StateDB call
\* before the child runs is prepare()) and gives the child the value 0;
\* when the child ends in error no commit() is made; it pushes 1 or 0 and
\* writes the return data as the handler of CALL does: push, then
\* write_with_size(retOff, retSize, R), then returnData = R.
C32_StaticCall ==
    [][ /\ (ev'.kind = "call" /\ ev'.op = STATICCALL) =>
            /\ frames'[Len(frames)].stack = pop_n(Top.stack, 6)
            /\ frames'[Len(frames')].value = 0
            /\ state' = prepare(state)
        /\ (ev'.kind = "callret" /\ ev'.op = STATICCALL) =>
            /\ ev'.res # "Ok" =>
                    (dbcalls'.commit = dbcalls.commit /\ state' = state)
            /\ IF write_with_size_panics(ev'.ret_offset, ev'.ret_size, Top.return_data)
               THEN status' = "panic"
               ELSE LET c == frames'[Len(frames')]
                    IN  /\ status' # "panic"
                        /\ c.stack = push(Parent.stack,
                                          IF ev'.res = "Ok" THEN 1 ELSE 0)
                        /\ c.memory = write_with_size(Parent.memory, ev'.ret_offset,
                                            ev'.ret_size, Top.return_data)
                        /\ c.return_data = Top.return_data
      ]_vars

\* A STATICCALL whose child reverted with a byte: 0 is on the stack, the
\* byte is in the parent's memory and nothing was committed.
C32_Witness ==
    /\ ev.kind = "callret"
    /\ ev.op = STATICCALL
    /\ ev.res = "Revert"
    /\ status # "panic"
    /\ Top.return_data = <<42>>
    /\ Top.memory = <<0, 42>>
    /\ Top.stack = <<0>>
    /\ dbcalls.commit = 0

\* ------------------------------------------------------------------------
\* Claims about storage and balances across sub-calls
\* ------------------------------------------------------------------------

\* The SSTOREs of the live frames and of their sub-frames that ended
\* normally.
Surviving == UNION { sstores.of[i] : i \in 1 .. Len(sstores.of) }

\* C33: a storage write of a frame that ended in error is never in the
\* committed storage (unless a frame that did not fail stored the same word
\* in the same slot).
C33_FailedWritesNotCommitted ==
    \A w \in sstores.failed \ Surviving :
        <<w.address, w.slot>> \in DOMAIN state.storage =>
            state.storage[<<w.address, w.slot>>] # w.value

\* The child that is returning, a sub-frame of it, or a frame that failed
\* stored into slot k of the contract a.
ChildWrote(a, k) ==
    \E w \in sstores.of[Len(sstores.of)] \cup sstores.failed :
        w.address = a /\ w.slot = k

\* The suspended frame stored v into slot k of its contract, and v is what
\* it read there when it made the sub-call.
ParentWrote(k, v) ==
    \E w \in sstores.of[Len(sstores.of) - 1] :
        w.address = Parent.contract /\ w.slot = k /\ w.value = v

\* C34: when a frame stored v into slot k and then made a sub-call (CALL,
\* CALLCODE, DELEGATECALL, STATICCALL) whose child did not write slot k of
\* that contract, slot k reads v to the frame after the sub-call returned.
C34_PendingWritesSurvive ==
    [][ (ev'.kind = "callret" /\ status' # "panic") =>
            \A k \in VMSlots :
                (ParentWrote(k, ev'.before[k]) /\ ~ChildWrote(Parent.contract, k)) =>
                    get_state(state', Parent.contract, k) = ev'.before[k]
      ]_vars

\* Code with no byte of a sub-call or a create: a frame that runs it makes
\* no transfer.
TouchesNoBalance(code) ==
    \A i \in 1 .. Len(code) :
        code[i] \notin {CALL, CALLCODE, DELEGATECALL, STATICCALL, CREATE, CREATE2}

RECURSIVE SumOf(_, _)
SumOf(f, as) ==
    IF as = {} THEN 0
    ELSE LET a == CHOOSE y \in as : TRUE
         IN  f[a] + SumOf(f, as \ {a})

\* C35: after a CALL with value v # 0 whose transfer succeeded and whose
\* child touched no balance, the balance of the parent's caller is v less
\* and the balance of `to` v more than before the CALL, and the sum of all
\* balances is what it was.
C35_CallMovesValue ==
    [][ (/\ ev'.kind = "callret" /\ ev'.op = CALL /\ ev'.value # 0
         /\ status' # "panic" /\ TouchesNoBalance(Top.code)) =>
            LET from == Parent.caller
                to == u256_to_address(ev'.to)
                was == ev'.balances
            IN  /\ from # to =>
                    /\ get_balance(state', from) = was[from] - ev'.value
                    /\ get_balance(state', to) = was[to] + ev'.value
                /\ from = to => get_balance(state', from) = was[from]
                /\ SumBalances(state', 0 .. AddrMod - 1)
                        = SumOf(was, 0 .. AddrMod - 1)
      ]_vars

\* ------------------------------------------------------------------------
\* Claims about the frames' ends, origins and the program counter
\* ------------------------------------------------------------------------

\* C36: a frame whose code is empty ends normally (Ok) at once, with no
\* instruction executed; a CALL whose child has no code pushes 1 and leaves
\* the parent's returnData empty.
C36_EmptyCodeEndsOk ==
    [][ /\ (status = "run" /\ Top.code = <<>>) =>
            (status' = "ret" /\ result' = "Ok" /\ frames' = frames)
        /\ (ev'.kind = "callret" /\ ev'.op = CALL /\ Top.code = <<>>) =>
            /\ status' # "panic"
            /\ frames'[Len(frames')].stack = push(Parent.stack, 1)
            /\ frames'[Len(frames')].return_data = <<>>
      ]_vars

\* C37: when the init code of a CREATE or CREATE2 ends with an error, the
\* parent frame ends with that error: it does not go on, nothing is pushed
\* on its stack and no code is installed.
C37_CreateErrorPropagates ==
    [][ (ev'.kind = "createret" /\ ev'.res # "Ok") =>
            /\ ev'.res \in {"Revert", "InvalidOpcode", "InvalidJumpDestination"}
            /\ status' = "ret"
            /\ result' = ev'.res
            /\ frames' = SubSeq(frames, 1, Len(frames) - 1)
            /\ state' = state
      ]_vars

\* The init code of a CREATE reverted: the root frame has ended with Revert
\* at the CREATE, its stack empty, and the address has no code.
C37_Witness ==
    /\ ev.kind = "createret"
    /\ ev.res = "Revert"
    /\ status = "ret"
    /\ result = "Revert"
    /\ Len(frames) = 1
    /\ Top.stack = <<>>
    /\ Top.code[Top.pc + 1] \in {CREATE, CREATE2}
    /\ get_code(state, ev.addr) = <<>>

\* C38: every frame has the origin of the root frame, and the child of a
\* CALL made by a child frame has that origin as its caller.
C38_OriginOfEveryFrame ==
    /\ \A i \in 1 .. Len(frames) : frames[i].origin = frames[1].origin
    /\ (Len(frames) >= 3 /\ conts[2].op = CALL) =>
            frames[3].caller = frames[1].origin

\* ------------------------------------------------------------------------
\* Claims about the code hash
\* ------------------------------------------------------------------------

\* C39: every account that holds code holds the Keccak-256 of that code as
\* its code hash.
C39_CodeHashOfCode ==
    \A a \in 0 .. AddrMod - 1 :
        (has_object(state, a) /\ get_code(state, a) # <<>>) =>
            get_code_hash(state, a) = keccak256(get_code(state, a))

\* The handlers that end the frame with Err(Stop).
Enders == {STOP, RETURN, INVALID}

\* The size the claim gives to an opcode: 1, or 1 + k for PUSHk.
OpcodeSize(op) == IF op >= PUSH1 /\ op <= PUSH32 THEN 1 + (op - PUSH1 + 1) ELSE 1

\* The frame i of the next state ends exactly when its pc has left the code.
EndsAtEndOfCode(i) ==
    /\ (status' = "ret") <=> (frames'[i].pc >= Len(frames'[i].code))
    /\ status' = "ret" => result' = "Ok"

\* C40: a handler that returns success and is neither JUMP nor JUMPI
\* leaves pc increased by the size of its opcode, which is 1, or 1 + k for
\* PUSHk; the frame goes on while pc is inside the code and ends normally
\* as soon as pc >= |code|. (So each dispatch of a frame without jumps moves
\* pc forward by at least 1, and there are at most |code| of them.)
C40_PcProgress ==
    [][ /\ (/\ status = "run" /\ Top.pc < Len(Top.code)
            /\ Len(frames') = Len(frames)
            /\ Top.code[Top.pc + 1] \notin {JUMP, JUMPI} \cup Enders
            /\ status' # "panic"
            /\ status' = "ret" => result' = "Ok") =>
                /\ OpcodeSize(Top.code[Top.pc + 1]) >= 1
                /\ frames'[Len(frames)].pc
                        = Top.pc + OpcodeSize(Top.code[Top.pc + 1])
                /\ EndsAtEndOfCode(Len(frames))
        /\ ((ev'.kind = "callret" /\ status' # "panic")
                \/ (ev'.kind = "createret" /\ ev'.res = "Ok")) =>
                /\ frames'[Len(frames')].pc = Parent.pc + OpcodeSize(ev'.op)
                /\ EndsAtEndOfCode(Len(frames'))
      ]_vars

\* A PUSH2 was the last instruction of the code: pc went from 0 to 3 and the
\* frame ended normally.
C40_Witness ==
    /\ ev.kind = "push"
    /\ Top.code = <<PUSH2, 1, 2>>
    /\ Top.pc = 3
    /\ status = "ret"
    /\ result = "Ok"

====
